---- MODULE Spec2Model ----
(***************************************************************************)
(* npllm: schema resolution (core/type.py from_annotation), value          *)
(* materialization (core/type.py convert / convert_strict) and the         *)
(* compilation cache of DefaultCompiler                                    *)
(* (core/llm_executor/compilers/default/default_compiler.py).              *)
(*                                                                         *)
(* Three specifications share the variables:                               *)
(*   SpecResolve  resolves a root annotation against a module's            *)
(*                declarations;                                            *)
(*   SpecConv     resolves a root annotation of a fixed module and         *)
(*                materializes one wire value against it;                  *)
(*   SpecCache    compile() callers, generator responses, cache-file       *)
(*                writes and source edits.                                 *)
(***************************************************************************)
EXTENDS Integers, Sequences, FiniteSets, TLC

VARIABLES
    \* ---- resolution / materialization
    module,     \* the call site's declarations (dataclasses, aliases, globals)
    rootAnn,    \* the annotation being resolved
    resolved,   \* result of Type.from_annotation: [ar, id, exc, maxdepth]
    value,      \* the wire value handed to convert
    strict,     \* the strict flag handed to convert
    result,     \* result of convert: [ok, val, exc, path]
    phase,      \* "start" | "resolved" | "converted"
    \* ---- compilation cache
    files,      \* path -> current content of the source file
    deps,       \* process -> call_site.dependent_modules, in dict order
    mem,        \* process -> DefaultCompiler._compilation_result_cache[call_site]
    disk,       \* the identity's cache file: whether it exists, and its cells
    task,       \* task -> its position in compile / _do_compile / _save_cache
    look,       \* what the compile() lookup of the step just taken found and
                \* returned; NoLook after any other step
    wire,       \* call_llm_async: the response text, how far its parsing has
                \* come, and the exceptions caught on the way
    site,       \* a call site under construction: the module's syntax tree,
                \* the statement that holds the call, and the declaration found
    stamp,      \* the clock, the modification time of every source file and
                \* of the cache file; <<>> where no time is kept
    calls,      \* the SemanticCall objects the process has built, in the
                \* order of the invocations; <<>> where none is built
    queries     \* the visited sets that are the default arguments of the
                \* Type classes' query methods, and the results of the
                \* queries made so far; <<>> where none is made

convVars  == <<module, rootAnn, resolved, value, strict, result, phase>>
cacheVars == <<files, deps, mem, disk, task, look>>
callVars  == <<wire, site>>
vars      == <<module, rootAnn, resolved, value, strict, result, phase,
               files, deps, mem, disk, task, look, wire, site, stamp,
               calls, queries>>

(***************************************************************************)
(* Python values: the parsed wire value (json.loads) and the materialized  *)
(* result.  A float is kept in tenths (3.5 is F(35)); a dict is its items  *)
(* in insertion order; a dataclass instance is its class and field items.  *)
(***************************************************************************)
None_      == [k |-> "None",  v |-> 0]
B(b)       == [k |-> "bool",  v |-> b]
I(i)       == [k |-> "int",   v |-> i]
F(t)       == [k |-> "float", v |-> t]
S(s)       == [k |-> "str",   v |-> s]
L(xs)      == [k |-> "list",  v |-> xs]
T(xs)      == [k |-> "tuple", v |-> xs]
D(items)   == [k |-> "dict",  v |-> items]
Inst(c, f) == [k |-> "instance", v |-> <<c, f>>]

(***************************************************************************)
(* Bounds                                                                  *)
(***************************************************************************)
RecursionLimit == 12   \* interpreter recursion limit, in nested calls
MaxInt         == 1    \* wire integers are 0 .. MaxInt, plus 3 and 4
MaxVersion     == 1    \* a source file's content is one of 0 .. MaxVersion

(***************************************************************************)
(* Annotations (ast nodes) and declarations                                *)
(***************************************************************************)
Name(id)          == [t |-> "Name", id |-> id]
Constant(id)      == [t |-> "Constant", id |-> id]
\* Subscript whose slice is a single expression: List[X], Optional[X], Union[X]
Sub1(base, a)     == [t |-> "Subscript", base |-> base, elts |-> <<a>>, tup |-> FALSE]
\* Subscript whose slice is an ast.Tuple: Tuple[X, Y], Dict[K, V], Union[X, Y]
SubN(base, as)    == [t |-> "Subscript", base |-> base, elts |-> as, tup |-> TRUE]
\* Literal[...] keeps its constants
Lit(vals)         == [t |-> "Subscript", base |-> "Literal", elts |-> vals, tup |-> TRUE]
BinOp(l, r)       == [t |-> "BinOp", left |-> l, right |-> r]

BasicNames == {"str", "int", "float", "bool"}

(***************************************************************************)
(* The arena of Type objects.  A Type object is a node; its id is its      *)
(* index in the arena, 0 is None.  set = FALSE is a node whose children    *)
(* have not been assigned yet (_item_type / _field_types / _types /        *)
(* _original_type is None).                                                *)
(***************************************************************************)
Node(kind, parent, name) ==
    [kind |-> kind, parent |-> parent, name |-> name, items |-> <<>>,
     fields |-> <<>>, values |-> <<>>, set |-> FALSE]

New(ar, n) == [ar |-> Append(ar, n), id |-> Len(ar) + 1]

Res(ar, id, md)      == [ar |-> ar, id |-> id, exc |-> "", maxdepth |-> md]
Raise(ar, exc, md)   == [ar |-> ar, id |-> 0, exc |-> exc, maxdepth |-> md]
Max(a, b)            == IF a >= b THEN a ELSE b

\* walk the parent_type chain from node id `cur` and return the first node
\* satisfying Test, or 0
RECURSIVE chain_find(_, _, _, _)
chain_find(ar, cur, kind, name) ==
    IF cur = 0 THEN 0
    ELSE IF ar[cur].kind = kind /\ ar[cur].name = name THEN cur
    ELSE chain_find(ar, ar[cur].parent, kind, name)

\* the nearest DataclassType ancestor's class, or "" (type.py 404-410)
RECURSIVE parent_dataclass(_, _)
parent_dataclass(ar, cur) ==
    IF cur = 0 THEN ""
    ELSE IF ar[cur].kind = "Dataclass" THEN ar[cur].name
    ELSE parent_dataclass(ar, ar[cur].parent)

\* CallSite.get_dataclass: the class named class_name in the caller's globals,
\* else the class of that name in the module of parent_class; "" is None.
\* A class is identified by "<module>.<name>".
get_dataclass(cs, class_name, parent_class) ==
    IF class_name \in DOMAIN cs.globals
    THEN (IF cs.globals[class_name] \in DOMAIN cs.classes
          THEN cs.globals[class_name] ELSE "")
    ELSE IF parent_class = "" THEN ""
    ELSE LET peers == {c \in DOMAIN cs.classes :
                          /\ cs.classes[c].module = cs.classes[parent_class].module
                          /\ cs.classes[c].name = class_name}
         IN  IF peers = {} THEN "" ELSE CHOOSE c \in peers : TRUE

(***************************************************************************)
(* Type.from_annotation and the from_annotation of each Type class.        *)
(* Every operator takes the arena and the depth d of nested                *)
(* Type.from_annotation calls and returns [ar, id, exc, maxdepth]:         *)
(* id = 0 is the code's None, exc # "" is a raised exception.              *)
(***************************************************************************)
RECURSIVE from_annotation(_, _, _, _, _)
RECURSIVE resolve_elts(_, _, _, _, _, _, _)
RECURSIVE alias_scan(_, _, _, _, _, _)

\* the loops "for elt in elts: type = Type.from_annotation(elt, ...);
\* if not type: return None" (type.py 244-249, 442-450, 592-597)
resolve_elts(elts, i, acc, cs, parent, ar, d) ==
    IF i > Len(elts)
    THEN [ar |-> ar, ids |-> acc, ok |-> TRUE, exc |-> "", maxdepth |-> d]
    ELSE LET r == from_annotation(elts[i], cs, parent, ar, d + 1)
         IN  IF r.exc # ""
             THEN [ar |-> r.ar, ids |-> acc, ok |-> FALSE, exc |-> r.exc,
                   maxdepth |-> r.maxdepth]
             ELSE IF r.id = 0
             THEN [ar |-> r.ar, ids |-> acc, ok |-> FALSE, exc |-> "",
                   maxdepth |-> r.maxdepth]
             ELSE LET rest == resolve_elts(elts, i + 1, Append(acc, r.id), cs,
                                           parent, r.ar, d)
                  IN  [rest EXCEPT !.maxdepth = Max(r.maxdepth, rest.maxdepth)]

\* BasicType.from_annotation (type.py 114-119)
BasicType_from_annotation(ann, cs, parent, ar, d) ==
    IF ann.id \in BasicNames
    THEN LET n == New(ar, [Node("Basic", parent, ann.id) EXCEPT !.set = TRUE])
         IN  Res(n.ar, n.id, d)
    ELSE Res(ar, 0, d)

\* AnyType.from_annotation (type.py 717-722)
AnyType_from_annotation(ann, cs, parent, ar, d) ==
    IF ann.id = "Any"
    THEN LET n == New(ar, [Node("Any", parent, "Any") EXCEPT !.set = TRUE])
         IN  Res(n.ar, n.id, d)
    ELSE Res(ar, 0, d)

\* variant that takes the nearest enclosing DataclassType whatever its class
dataclass_self_reference_any_class(ar, parent, cls) ==
    IF parent_dataclass(ar, parent) = "" THEN 0
    ELSE chain_find(ar, parent, "Dataclass", parent_dataclass(ar, parent))

\* variant without the self-reference check: no enclosing type is searched
dataclass_self_reference_off(ar, parent, cls) ==
    chain_find(ar, 0, "Dataclass", cls)

\* the self-reference check of DataclassType.from_annotation (type.py 418-424):
\* the DataclassType of the same class on the parent_type chain, or 0
dataclass_self_reference(ar, parent, cls) ==
    chain_find(ar, parent, "Dataclass", cls)

\* DataclassType.from_annotation (type.py 401-456)
DataclassType_from_annotation(ann, cs, parent, ar, d) ==
    LET cls == get_dataclass(cs, ann.id, parent_dataclass(ar, parent))
    IN  IF cls = "" THEN Res(ar, 0, d)
        ELSE LET self == dataclass_self_reference(ar, parent, cls)
             IN  IF self # 0 THEN Res(ar, self, d)
                 ELSE
    LET n  == New(ar, Node("Dataclass", parent, cls))
        fs == cs.classes[cls].fields
        r  == resolve_elts([i \in 1..Len(fs) |-> fs[i].ann], 1, <<>>, cs, n.id,
                           n.ar, d)
    IN  IF r.exc # "" THEN Raise(r.ar, r.exc, r.maxdepth)
        ELSE IF ~r.ok THEN Res(r.ar, 0, r.maxdepth)
        ELSE Res([r.ar EXCEPT ![n.id].items = r.ids,
                              ![n.id].fields = [i \in 1..Len(fs) |-> fs[i].name],
                              ![n.id].set = TRUE], n.id, r.maxdepth)

\* the self-reference check of AliasType.from_annotation (type.py 785-791)
alias_self_reference(ar, parent, alias_name) ==
    chain_find(ar, parent, "Alias", alias_name)

\* the loop over the module's top-level Assign statements (type.py 809-818)
alias_scan(body, i, cs, alias, ar, d) ==
    IF i > Len(body) THEN Res(ar, 0, d)
    ELSE IF body[i].target # ar[alias].name
    THEN alias_scan(body, i + 1, cs, alias, ar, d)
    ELSE LET r == from_annotation(body[i].value, cs, alias, ar, d + 1)
         IN  IF r.exc # "" THEN r
             ELSE IF r.id # 0
             THEN Res([r.ar EXCEPT ![alias].items = <<r.id>>, ![alias].set = TRUE],
                      alias, r.maxdepth)
             ELSE LET rest == alias_scan(body, i + 1, cs, alias, r.ar, d)
                  IN  [rest EXCEPT !.maxdepth = Max(r.maxdepth, rest.maxdepth)]

\* AliasType.from_annotation (type.py 781-818)
AliasType_from_annotation(ann, cs, parent, ar, d) ==
    LET self == alias_self_reference(ar, parent, ann.id)
    IN  IF self # 0 THEN Res(ar, self, d)
        ELSE IF ann.id \notin DOMAIN cs.globals THEN Res(ar, 0, d)
        ELSE LET n == New(ar, Node("Alias", parent, ann.id))
             IN  alias_scan(cs.body, 1, cs, n.id, n.ar, d)

\* "BasicType or AnyType or DataclassType or AliasType" (type.py 30-36)
name_from_annotation(ann, cs, parent, ar, d) ==
    LET b == BasicType_from_annotation(ann, cs, parent, ar, d)
    IN  IF b.id # 0 THEN b
        ELSE LET a == AnyType_from_annotation(ann, cs, parent, ar, d)
             IN  IF a.id # 0 THEN a
                 ELSE LET dc == DataclassType_from_annotation(ann, cs, parent, ar, d)
                      IN  IF dc.exc # "" \/ dc.id # 0 THEN dc
                          ELSE LET al == AliasType_from_annotation(ann, cs, parent,
                                                                   dc.ar, d)
                               IN  [al EXCEPT !.maxdepth = Max(dc.maxdepth, al.maxdepth)]

\* the slice of a Subscript as one expression: an ast.Tuple when it has elts
slice_of(ann) == IF ann.tup THEN [t |-> "Tuple"] ELSE ann.elts[1]

\* variant that returns the new node also when its item did not resolve
item_from_annotation_unchecked(kind, ann, cs, parent, ar, d) ==
    LET n == New(ar, Node(kind, parent, ""))
        r == from_annotation(slice_of(ann), cs, n.id, n.ar, d + 1)
    IN  IF r.exc # "" THEN r
        ELSE IF r.id = 0 THEN Res(r.ar, n.id, r.maxdepth)
        ELSE Res([r.ar EXCEPT ![n.id].items = <<r.id>>, ![n.id].set = TRUE],
                 n.id, r.maxdepth)

\* ListType.from_annotation (type.py 179-188) and
\* OptionalType.from_annotation (type.py 881-889)
item_from_annotation(kind, ann, cs, parent, ar, d) ==
    LET n == New(ar, Node(kind, parent, ""))
        r == from_annotation(slice_of(ann), cs, n.id, n.ar, d + 1)
    IN  IF r.exc # "" \/ r.id = 0 THEN r
        ELSE Res([r.ar EXCEPT ![n.id].items = <<r.id>>, ![n.id].set = TRUE],
                 n.id, r.maxdepth)

\* TupleType.from_annotation (type.py 240-252)
TupleType_from_annotation(ann, cs, parent, ar, d) ==
    LET n == New(ar, Node("Tuple", parent, ""))
    IN  IF ~ann.tup THEN Raise(n.ar, "AttributeError", d)
        ELSE LET r == resolve_elts(ann.elts, 1, <<>>, cs, n.id, n.ar, d)
             IN  IF r.exc # "" THEN Raise(r.ar, r.exc, r.maxdepth)
                 ELSE IF ~r.ok THEN Res(r.ar, 0, r.maxdepth)
                 ELSE Res([r.ar EXCEPT ![n.id].items = r.ids, ![n.id].set = TRUE],
                          n.id, r.maxdepth)

\* DictType.from_annotation (type.py 323-335)
DictType_from_annotation(ann, cs, parent, ar, d) ==
    LET n == New(ar, Node("Dict", parent, ""))
    IN  IF ~ann.tup THEN Raise(n.ar, "AttributeError", d)
        ELSE IF Len(ann.elts) < 2 THEN Raise(n.ar, "IndexError", d)
        ELSE
    LET k == from_annotation(ann.elts[1], cs, n.id, n.ar, d + 1)
    IN  IF k.exc # "" THEN k
        ELSE
    LET v  == from_annotation(ann.elts[2], cs, n.id, k.ar, d + 1)
        md == Max(k.maxdepth, v.maxdepth)
    IN  IF v.exc # "" THEN [v EXCEPT !.maxdepth = md]
        ELSE IF k.id = 0 \/ v.id = 0 THEN Res(v.ar, 0, md)
        ELSE IF ~(v.ar[k.id].kind = "Basic" /\ v.ar[k.id].name = "str")
        THEN Raise(v.ar, "RuntimeError", md)
        ELSE Res([v.ar EXCEPT ![n.id].items = <<k.id, v.id>>, ![n.id].set = TRUE],
                 n.id, md)

\* UnionType.from_annotation (type.py 580-600): a single member is resolved
\* under the union, several members under the union's parent
UnionType_from_annotation(ann, cs, parent, ar, d) ==
    LET n == New(ar, Node("Union", parent, ""))
        r == IF ~ann.tup
             THEN resolve_elts(ann.elts, 1, <<>>, cs, n.id, n.ar, d)
             ELSE resolve_elts(ann.elts, 1, <<>>, cs, parent, n.ar, d)
    IN  IF r.exc # "" THEN Raise(r.ar, r.exc, r.maxdepth)
        ELSE IF ~r.ok THEN Res(r.ar, 0, r.maxdepth)
        ELSE Res([r.ar EXCEPT ![n.id].items = r.ids, ![n.id].set = TRUE],
                 n.id, r.maxdepth)

\* LiteralType.from_annotation (type.py 742-751)
LiteralType_from_annotation(ann, cs, parent, ar, d) ==
    IF \A i \in 1..Len(ann.elts) : ann.elts[i].k \in {"str", "int", "float", "bool"}
    THEN LET n == New(ar, [Node("Literal", parent, "") EXCEPT
                                !.values = ann.elts, !.set = TRUE])
         IN  Res(n.ar, n.id, d)
    ELSE Res(ar, 0, d)

\* the "A | B" branch of Type.from_annotation (type.py 51-57)
binop_from_annotation(ann, cs, parent, ar, d) ==
    LET l == from_annotation(ann.left, cs, parent, ar, d + 1)
    IN  IF l.exc # "" THEN l
        ELSE
    LET r  == from_annotation(ann.right, cs, parent, l.ar, d + 1)
        md == Max(l.maxdepth, r.maxdepth)
    IN  IF r.exc # "" THEN [r EXCEPT !.maxdepth = md]
        ELSE IF l.id = 0 \/ r.id = 0 THEN Res(r.ar, 0, md)
        ELSE LET n == New(r.ar, [Node("Union", parent, "") EXCEPT
                                     !.items = <<l.id, r.id>>, !.set = TRUE])
             IN  Res(n.ar, n.id, md)

\* Type.from_annotation (type.py 20-59)
from_annotation(ann, cs, parent, ar, d) ==
    IF d > RecursionLimit THEN Raise(ar, "RecursionError", d)
    ELSE IF ann.t \in {"Name", "Constant"}
    THEN name_from_annotation(ann, cs, parent, ar, d)
    ELSE IF ann.t = "Subscript"
    THEN CASE ann.base \in {"List", "list"} ->
                  item_from_annotation("List", ann, cs, parent, ar, d)
           [] ann.base \in {"Tuple", "tuple"} ->
                  TupleType_from_annotation(ann, cs, parent, ar, d)
           [] ann.base \in {"Dict", "dict"} ->
                  DictType_from_annotation(ann, cs, parent, ar, d)
           [] ann.base \in {"Union", "union"} ->
                  UnionType_from_annotation(ann, cs, parent, ar, d)
           [] ann.base \in {"Literal", "literal"} ->
                  LiteralType_from_annotation(ann, cs, parent, ar, d)
           [] ann.base \in {"Optional", "optional"} ->
                  item_from_annotation("Optional", ann, cs, parent, ar, d)
           [] OTHER -> Res(ar, 0, d)
    ELSE IF ann.t = "BinOp"
    THEN binop_from_annotation(ann, cs, parent, ar, d)
    ELSE Res(ar, 0, d)

\* a call site's _parse_return_type applied to its annotation
resolve(ann, cs) == from_annotation(ann, cs, 0, <<>>, 1)

\* Type.__repr__ of every Type class (type.py 175, 235, 315, 396, 575, 711,
\* 737, 775, 876, 932)
RECURSIVE repr(_, _, _)
RECURSIVE join_repr(_, _, _, _)
join_repr(ar, cs, ids, i) ==
    IF i > Len(ids) THEN ""
    ELSE repr(ar, cs, ids[i]) \o (IF i < Len(ids) THEN ", " ELSE "")
                              \o join_repr(ar, cs, ids, i + 1)

RECURSIVE join_values(_, _)
join_values(vals, i) ==
    IF i > Len(vals) THEN ""
    ELSE (IF vals[i].k = "str" THEN "'" \o vals[i].v \o "'" ELSE ToString(vals[i].v))
         \o (IF i < Len(vals) THEN ", " ELSE "") \o join_values(vals, i + 1)

repr(ar, cs, id) ==
    LET n == ar[id]
    IN  CASE n.kind = "Basic"     -> n.name
          [] n.kind = "Any"       -> "Any"
          [] n.kind = "Alias"     -> n.name
          [] n.kind = "Dataclass" -> cs.classes[n.name].name
          [] n.kind = "List"      -> "List[" \o repr(ar, cs, n.items[1]) \o "]"
          [] n.kind = "Optional"  -> "Optional[" \o repr(ar, cs, n.items[1]) \o "]"
          [] n.kind = "Tuple"     -> "Tuple[" \o join_repr(ar, cs, n.items, 1) \o "]"
          [] n.kind = "Dict"      -> "Dict[" \o join_repr(ar, cs, n.items, 1) \o "]"
          [] n.kind = "Union"     -> "Union[" \o join_repr(ar, cs, n.items, 1) \o "]"
          [] n.kind = "Literal"   -> "Literal[" \o join_values(n.values, 1) \o "]"

has_key(d, key) == \E i \in 1..Len(d.v) : d.v[i][1] = key
\* dict.get(key): None when the key is absent
dict_get(d, key) ==
    IF has_key(d, key)
    THEN d.v[CHOOSE i \in 1..Len(d.v) : d.v[i][1] = key][2]
    ELSE None_

Ok(v)                 == [ok |-> TRUE,  val |-> v, exc |-> "", path |-> "", why |-> ""]
\* raise ValueConversionError(f"{field_path} ...")
Fail(path, why)       == [ok |-> FALSE, val |-> None_, exc |-> "ValueConversionError",
                          path |-> path, why |-> why]
\* any other exception: its text does not carry the field path
Throw(exc)            == [ok |-> FALSE, val |-> None_, exc |-> exc, path |-> "",
                          why |-> ""]

\* the decimal strings int() and float() parse, within the model's integers
IntRange == 0 .. (MaxInt + 4)
int_of_str(s) ==
    IF \E i \in IntRange : ToString(i) = s
    THEN Ok(I(CHOOSE i \in IntRange : ToString(i) = s))
    ELSE Throw("ValueError")
float_str(t) == ToString(t \div 10) \o "." \o ToString(t % 10)
float_of_str(s) ==
    IF \E i \in IntRange : ToString(i) = s
    THEN Ok(F(10 * (CHOOSE i \in IntRange : ToString(i) = s)))
    ELSE IF \E t \in 0 .. (10 * (MaxInt + 4) + 9) : float_str(t) = s
    THEN Ok(F(CHOOSE t \in 0 .. (10 * (MaxInt + 4) + 9) : float_str(t) = s))
    ELSE Throw("ValueError")

\* str(value)
py_str(x) ==
    CASE x.k = "str"   -> x
      [] x.k = "int"   -> S(ToString(x.v))
      [] x.k = "float" -> S(float_str(x.v))
      [] x.k = "bool"  -> S(IF x.v THEN "True" ELSE "False")
      [] OTHER         -> S("<repr of a container>")
\* int(value)
py_int(x) ==
    CASE x.k = "int"   -> Ok(x)
      [] x.k = "bool"  -> Ok(I(IF x.v THEN 1 ELSE 0))
      [] x.k = "float" -> Ok(I(x.v \div 10))
      [] x.k = "str"   -> int_of_str(x.v)
      [] OTHER         -> Throw("TypeError")
\* float(value)
py_float(x) ==
    CASE x.k = "int"   -> Ok(F(10 * x.v))
      [] x.k = "bool"  -> Ok(F(IF x.v THEN 10 ELSE 0))
      [] x.k = "float" -> Ok(x)
      [] x.k = "str"   -> float_of_str(x.v)
      [] OTHER         -> Throw("TypeError")
\* bool(value)
py_bool(x) ==
    CASE x.k = "bool"  -> Ok(x)
      [] x.k \in {"int", "float"} -> Ok(B(x.v # 0))
      [] x.k = "str"   -> Ok(B(x.v # ""))
      [] x.k = "None"  -> Ok(B(FALSE))
      [] OTHER         -> Ok(B(Len(x.v) > 0))

\* isinstance(value, int): bool is a subclass of int
isinstance_int(x)   == x.k \in {"int", "bool"}
isinstance_float(x) == x.k = "float"
isinstance_str(x)   == x.k = "str"
isinstance_bool(x)  == x.k = "bool"

\* a == b for scalars: numbers (bool included) compare by value
num_tenths(x) == IF x.k = "float" THEN x.v
                 ELSE IF x.k = "int" THEN 10 * x.v
                 ELSE IF x.v THEN 10 ELSE 0
py_eq(a, b) ==
    IF a.k \in {"int", "float", "bool"} /\ b.k \in {"int", "float", "bool"}
    THEN num_tenths(a) = num_tenths(b)
    ELSE a.k = "str" /\ b.k = "str" /\ a.v = b.v

(***************************************************************************)
(* Type.convert of every Type class.                                       *)
(* chain is the set of (type, value, strict) calls that are active on the  *)
(* call stack: convert is deterministic, so a call that is already active  *)
(* recurses without end and the interpreter raises RecursionError.         *)
(***************************************************************************)
RECURSIVE convert(_, _, _, _, _, _, _)
RECURSIVE convert_seq(_, _, _, _, _, _, _, _, _)
RECURSIVE convert_items(_, _, _, _, _, _, _, _, _)
RECURSIVE convert_fields(_, _, _, _, _, _, _, _, _)
RECURSIVE try_all(_, _, _, _, _, _, _, _)

\* variant of BasicType.convert_strict without the early return for None: a
\* null falls through to the isinstance checks
BasicType_convert_strict_null_checked(type, v, field_path) ==
    IF type = "str"
    THEN (IF ~isinstance_str(v) THEN Fail(field_path, "kind") ELSE Ok(v))
    ELSE IF type \in {"int", "float"}
    THEN (IF ~isinstance_int(v) /\ ~isinstance_float(v)
          THEN Fail(field_path, "kind") ELSE Ok(v))
    ELSE IF type = "bool"
    THEN (IF ~isinstance_bool(v) THEN Fail(field_path, "kind") ELSE Ok(v))
    ELSE Throw("RuntimeError")

\* BasicType.convert_strict (type.py 154-173)
BasicType_convert_strict(type, v, field_path) ==
    IF v.k = "None" THEN Ok(None_)
    ELSE IF type = "str"
    THEN (IF ~isinstance_str(v) THEN Fail(field_path, "kind") ELSE Ok(v))
    ELSE IF type \in {"int", "float"}
    THEN (IF ~isinstance_int(v) /\ ~isinstance_float(v)
          THEN Fail(field_path, "kind") ELSE Ok(v))
    ELSE IF type = "bool"
    THEN (IF ~isinstance_bool(v) THEN Fail(field_path, "kind") ELSE Ok(v))
    ELSE Throw("RuntimeError")

\* BasicType.convert (type.py 132-152)
BasicType_convert(type, v, field_path, st) ==
    IF st THEN BasicType_convert_strict(type, v, field_path)
    ELSE IF v.k = "None" THEN Ok(None_)
    ELSE IF type = "str" THEN Ok(py_str(v))
    ELSE IF v.k = "str" /\ v.v = "" THEN Ok(None_)
    ELSE IF type = "int" THEN py_int(v)
    ELSE IF type = "float" THEN py_float(v)
    ELSE IF type = "bool" THEN py_bool(v)
    ELSE Throw("RuntimeError")

\* f"{field_path}[{i}]" for the i-th element (0-based in the text)
index_path(field_path, i) == field_path \o "[" \o ToString(i - 1) \o "]"
\* f"{field_path}.{name}"
field_path_of(field_path, name) == field_path \o "." \o name

\* the element loops of ListType.convert (type.py 229-233) and
\* TupleType.convert (type.py 308-312); types[i] converts vals[i]
convert_seq(ar, cs, types, vals, i, field_path, st, chain, acc) ==
    IF i > Len(types) THEN Ok(L(acc))
    ELSE LET r == convert(ar, cs, types[i], vals[i], index_path(field_path, i),
                          st, chain)
         IN  IF ~r.ok THEN r
             ELSE convert_seq(ar, cs, types, vals, i + 1, field_path, st, chain,
                              Append(acc, r.val))

\* ListType.convert (type.py 222-233)
ListType_convert(ar, cs, id, v, field_path, st, chain) ==
    IF v.k = "None" THEN Ok(None_)
    ELSE IF v.k # "list" THEN Fail(field_path, "list")
    ELSE IF Len(v.v) = 0 THEN Ok(L(<<>>))
    ELSE IF ~ar[id].set THEN Throw("AttributeError")
    ELSE convert_seq(ar, cs, [i \in 1..Len(v.v) |-> ar[id].items[1]], v.v, 1,
                     field_path, st, chain, <<>>)

\* an arity check that lets a longer array through (its tail would be dropped)
tuple_arity_ok_truncating(n_types, n_values) == n_types <= n_values

\* the arity check of TupleType.convert (type.py 305-306)
tuple_arity_ok(n_types, n_values) == n_types = n_values

\* TupleType.convert (type.py 298-312)
TupleType_convert(ar, cs, id, v, field_path, st, chain) ==
    IF v.k = "None" THEN Ok(None_)
    ELSE IF v.k # "list" THEN Fail(field_path, "list")
    ELSE IF ~ar[id].set THEN Throw("TypeError")
    ELSE IF ~tuple_arity_ok(Len(ar[id].items), Len(v.v)) THEN Fail(field_path, "arity")
    ELSE LET r == convert_seq(ar, cs, ar[id].items, v.v, 1, field_path, st,
                              chain, <<>>)
         IN  IF r.ok THEN Ok(T(r.val.v)) ELSE r

\* the item loop of DictType.convert (type.py 389-394)
convert_items(ar, cs, vt, items, i, field_path, st, chain, acc) ==
    IF i > Len(items) THEN Ok(D(acc))
    ELSE LET r == convert(ar, cs, vt, items[i][2],
                          field_path_of(field_path, items[i][1]), st, chain)
         IN  IF ~r.ok THEN r
             ELSE convert_items(ar, cs, vt, items, i + 1, field_path, st, chain,
                                Append(acc, <<items[i][1], r.val>>))

\* DictType.convert (type.py 381-394)
DictType_convert(ar, cs, id, v, field_path, st, chain) ==
    IF v.k = "None" THEN Ok(None_)
    ELSE IF v.k # "dict" THEN Fail(field_path, "dict")
    ELSE IF Len(v.v) = 0 THEN Ok(D(<<>>))
    ELSE IF ~ar[id].set THEN Throw("AttributeError")
    ELSE convert_items(ar, cs, ar[id].items[2], v.v, 1, field_path, st, chain, <<>>)

\* variant in which an absent field is an error in lenient mode too
missing_field_required(st, field_path, field_name) ==
    Fail(field_path, "missing:" \o field_name)

\* variant in which strict mode defaults an absent field as lenient mode does
missing_field_lenient(st, field_path, field_name) ==
    Ok(None_)

\* what a declared field that is absent from the input becomes: None in
\* convert (type.py 553-554), an error in convert_strict (type.py 570-571)
missing_field(st, field_path, field_name) ==
    IF st THEN Fail(field_path, "missing:" \o field_name) ELSE Ok(None_)

\* the field loops of DataclassType.convert (type.py 548-556) and
\* DataclassType.convert_strict (type.py 565-573)
convert_fields(ar, cs, id, v, i, field_path, st, chain, acc) ==
    IF i > Len(ar[id].fields) THEN Ok(Inst(ar[id].name, acc))
    ELSE LET fn == ar[id].fields[i]
             r  == IF has_key(v, fn)
                   THEN convert(ar, cs, ar[id].items[i], dict_get(v, fn),
                                field_path_of(field_path, fn), st, chain)
                   ELSE missing_field(st, field_path, fn)
         IN  IF ~r.ok THEN r
             ELSE convert_fields(ar, cs, id, v, i + 1, field_path, st, chain,
                                 Append(acc, <<fn, r.val>>))

\* DataclassType.convert_strict (type.py 558-573)
DataclassType_convert_strict(ar, cs, id, v, field_path, chain) ==
    IF v.k = "None" THEN Ok(None_)
    ELSE IF v.k # "dict" THEN Fail(field_path, "dict")
    ELSE IF ~ar[id].set THEN Throw("AttributeError")
    ELSE convert_fields(ar, cs, id, v, 1, field_path, TRUE, chain, <<>>)

\* a test that takes a primitive for the first field of any record
primitive_for_only_field_any(v, n_fields) ==
    v.k \in {"int", "float", "str", "bool"}

\* "type(value) in (int, float, str, bool) and len(self._field_types) == 1"
\* (type.py 540)
primitive_for_only_field(v, n_fields) ==
    v.k \in {"int", "float", "str", "bool"} /\ n_fields = 1

\* DataclassType.convert (type.py 532-556)
DataclassType_convert(ar, cs, id, v, field_path, st, chain) ==
    IF st THEN DataclassType_convert_strict(ar, cs, id, v, field_path, chain)
    ELSE IF v.k = "None" THEN Ok(None_)
    ELSE IF ~ar[id].set THEN Throw("AttributeError")
    ELSE IF v.k # "dict"
    THEN (IF primitive_for_only_field(v, Len(ar[id].fields))
          THEN convert_fields(ar, cs, id, D(<< <<ar[id].fields[1], v>> >>), 1,
                              field_path, FALSE, chain, <<>>)
          ELSE Fail(field_path, "dict"))
    ELSE convert_fields(ar, cs, id, v, 1, field_path, FALSE, chain, <<>>)

\* "for t in self._types: if repr(t) == __type_name: actual_type = t; break"
\* (type.py 676-680, 700-704): the index of the branch, 0 when there is none
find_branch(ar, cs, types, type_name) ==
    LET hits == {i \in 1..Len(types) :
                    type_name.k = "str" /\ repr(ar, cs, types[i]) = type_name.v}
    IN  IF hits = {} THEN 0 ELSE CHOOSE i \in hits : \A j \in hits : i <= j

\* UnionType.convert_strict (type.py 687-709)
UnionType_convert_strict(ar, cs, id, v, field_path, chain) ==
    IF v.k = "None" THEN Ok(None_)
    ELSE IF v.k # "dict" THEN Fail(field_path, "envelope")
    ELSE IF ~ar[id].set THEN Throw("TypeError")
    ELSE LET tn == dict_get(v, "__type_name")
             pv == dict_get(v, "__value")
         IN  IF tn.k = "None" \/ pv.k = "None" THEN Fail(field_path, "untagged")
             ELSE LET b == find_branch(ar, cs, ar[id].items, tn)
                  IN  IF b = 0 THEN Fail(field_path, "tag")
                      ELSE convert(ar, cs, ar[id].items[b], pv,
                                   field_path_of(field_path, "__value"), TRUE, chain)

\* the try loop of UnionType.convert (type.py 661-668): the successful
\* conversions, in branch order; only ValueConversionError is caught
try_all(ar, cs, types, i, v, field_path, chain, acc) ==
    IF i > Len(types) THEN [exc |-> "", results |-> acc]
    ELSE LET r == convert(ar, cs, types[i], v,
                          field_path_of(field_path, "__value"), TRUE, chain)
         IN  IF ~r.ok /\ r.exc # "ValueConversionError"
             THEN [exc |-> r.exc, results |-> acc]
             ELSE try_all(ar, cs, types, i + 1, v, field_path, chain,
                          IF r.ok /\ r.val.k # "None" THEN Append(acc, r.val)
                          ELSE acc)

\* variant that takes the first successful branch
pick_untagged_first(successful_conversions, field_path) ==
    IF Len(successful_conversions) >= 1 THEN Ok(successful_conversions[1])
    ELSE Fail(field_path, "untagged")

\* the decision after the try loop (type.py 670-674)
pick_untagged(successful_conversions, field_path) ==
    IF Len(successful_conversions) = 1 THEN Ok(successful_conversions[1])
    ELSE Fail(field_path, "untagged")

\* UnionType.convert (type.py 646-685)
UnionType_convert(ar, cs, id, v, field_path, st, chain) ==
    IF st THEN UnionType_convert_strict(ar, cs, id, v, field_path, chain)
    ELSE IF v.k = "None" THEN Ok(None_)
    ELSE IF v.k # "dict" THEN Fail(field_path, "envelope")
    ELSE IF ~ar[id].set THEN Throw("TypeError")
    ELSE LET tn == dict_get(v, "__type_name")
             pv == dict_get(v, "__value")
         IN  IF tn.k = "None" \/ pv.k = "None"
             THEN LET t == try_all(ar, cs, ar[id].items, 1, v, field_path, chain, <<>>)
                  IN  IF t.exc # "" THEN Throw(t.exc)
                      ELSE pick_untagged(t.results, field_path)
             ELSE LET b == find_branch(ar, cs, ar[id].items, tn)
                  IN  IF b = 0 THEN Fail(field_path, "tag")
                      ELSE convert(ar, cs, ar[id].items[b], pv,
                                   field_path_of(field_path, "__value"), st, chain)

\* LiteralType.convert (type.py 766-773)
LiteralType_convert(ar, id, v, field_path) ==
    IF v.k = "None" THEN Ok(None_)
    ELSE IF ~\E i \in 1..Len(ar[id].values) : py_eq(v, ar[id].values[i])
    THEN Fail(field_path, "literal")
    ELSE Ok(v)

\* AliasType.convert (type.py 873-874)
AliasType_convert(ar, cs, id, v, field_path, st, chain) ==
    IF ~ar[id].set THEN Throw("AttributeError")
    ELSE convert(ar, cs, ar[id].items[1], v, field_path, st, chain)

\* an Optional that hands every value, null included, to its item type
OptionalType_convert_delegating(ar, cs, id, v, field_path, st, chain) ==
    IF ~ar[id].set THEN Throw("AttributeError")
    ELSE convert(ar, cs, ar[id].items[1], v, field_path, st, chain)

\* OptionalType.convert (type.py 926-930)
OptionalType_convert(ar, cs, id, v, field_path, st, chain) ==
    IF v.k = "None" THEN Ok(None_)
    ELSE IF ~ar[id].set THEN Throw("AttributeError")
    ELSE convert(ar, cs, ar[id].items[1], v, field_path, st, chain)

\* the dynamic dispatch of type.convert(value, field_path, strict)
convert(ar, cs, id, v, field_path, st, chain) ==
    IF <<id, v, st>> \in chain THEN Throw("RecursionError")
    ELSE LET ch == chain \cup {<<id, v, st>>}
             n  == ar[id]
         IN  CASE n.kind = "Basic"     -> BasicType_convert(n.name, v, field_path, st)
               [] n.kind = "List"      -> ListType_convert(ar, cs, id, v, field_path, st, ch)
               [] n.kind = "Tuple"     -> TupleType_convert(ar, cs, id, v, field_path, st, ch)
               [] n.kind = "Dict"      -> DictType_convert(ar, cs, id, v, field_path, st, ch)
               [] n.kind = "Dataclass" -> DataclassType_convert(ar, cs, id, v, field_path, st, ch)
               [] n.kind = "Union"     -> UnionType_convert(ar, cs, id, v, field_path, st, ch)
               [] n.kind = "Any"       -> Ok(v)
               [] n.kind = "Literal"   -> LiteralType_convert(ar, id, v, field_path)
               [] n.kind = "Alias"     -> AliasType_convert(ar, cs, id, v, field_path, st, ch)
               [] n.kind = "Optional"  -> OptionalType_convert(ar, cs, id, v, field_path, st, ch)

\* call_llm_async's materialization of the parsed response (call_llm.py 112)
materialize(ar, cs, id, v, st) == convert(ar, cs, id, v, "__root", st, {})

(***************************************************************************)
(* Declarations the specifications resolve against                         *)
(***************************************************************************)
Field(name, ann) == [name |-> name, ann |-> ann]
Assign(target, ann) == [target |-> target, value |-> ann]
Class(mod, name, fields) == [module |-> mod, name |-> name, fields |-> fields]

\* a module with the records and aliases of the demos and of the
\* specification's examples
ConvModule ==
    [classes |->
        [Point |-> Class("m", "Point", <<Field("x", Name("int")), Field("y", Name("int"))>>),
         Cat   |-> Class("m", "Cat", <<Field("sound", Name("str"))>>),
         Dog   |-> Class("m", "Dog", <<Field("sound", Name("str"))>>),
         Flag  |-> Class("m", "Flag", <<Field("on", Name("bool"))>>),
         Node  |-> Class("m", "Node",
                         <<Field("next", Sub1("Optional", Constant("Node")))>>),
         User  |-> Class("m", "User", <<Field("name", Name("str")),
                                        Field("nick", Sub1("Optional", Name("str")))>>)],
     globals |-> [Point |-> "Point", Cat |-> "Cat", Dog |-> "Dog", Flag |-> "Flag",
                  Node |-> "Node", User |-> "User", Loop |-> "<alias>",
                  Pet |-> "<alias>"],
     body |-> <<Assign("Loop", Sub1("Optional", Constant("Loop"))),
                Assign("Pet", SubN("Union", <<Name("Cat"), Name("Dog")>>))>>]

ConvRoots ==
    {Name("int"), Name("str"), Name("float"), Name("bool"), Name("Any"),
     Name("Point"), Name("Cat"), Name("Flag"), Name("Node"), Name("User"),
     Name("Loop"), Name("Pet"),
     Sub1("List", Name("int")), Sub1("List", Name("Point")),
     Sub1("Optional", Name("int")),
     SubN("Tuple", <<Name("int"), Name("str")>>),
     SubN("Dict", <<Name("str"), Name("int")>>),
     Lit(<<S("4"), I(3)>>),
     SubN("Union", <<Name("Cat"), Name("Dog")>>),
     SubN("Union", <<Name("Dog"), Name("Cat")>>),
     SubN("Union", <<Name("int"), Name("str")>>),
     SubN("Union", <<Name("str"), Name("int")>>),
     SubN("Union", <<Name("Any"), Name("Dog")>>),
     SubN("Union", <<Name("Point"), Name("Cat")>>),
     SubN("Union", <<Name("int"), Sub1("Optional", Name("str"))>>),
     BinOp(Name("Cat"), Name("Flag"))}

(***************************************************************************)
(* Wire values                                                             *)
(***************************************************************************)
Ints    == {I(i) : i \in 0..MaxInt}
Scalars == {None_, B(TRUE), B(FALSE), S(""), S("4"), S("woof"), F(35), I(3)} \cup Ints
Small   == {None_, I(3), S("4"), S("woof"), B(TRUE)}
Lists   == {L(<<>>)} \cup {L(<<a>>) : a \in Small} \cup {L(<<a, b>>) : a, b \in Small}
             \cup {L(<<I(3), S("4"), I(3)>>),
                   L(<<D(<< <<"x", I(3)>>, <<"y", S("woof")>> >>)>>)}
Objects == {D(<<>>)}
             \cup {D(<< <<"x", a>>, <<"y", b>> >>) : a, b \in Small}
             \cup {D(<< <<"x", a>> >>) : a \in Small}
             \cup {D(<< <<"y", a>> >>) : a \in Small}
             \cup {D(<< <<"sound", a>> >>) : a \in Small}
             \cup {D(<< <<"on", a>> >>) : a \in Small}
             \cup {D(<< <<"name", a>> >>) : a \in Small}
             \cup {D(<< <<"name", a>>, <<"nick", b>> >>) : a, b \in {None_, S("woof"), I(3)}}
             \cup {D(<< <<"next", a>> >>) : a \in {None_, I(3), D(<<>>),
                                                 D(<< <<"next", None_>> >>)}}
             \cup {D(<< <<"a", a>>, <<"b", b>> >>) : a, b \in {I(3), S("woof")}}
Tags     == {S("Cat"), S("Dog"), S("int"), S("str"), S("Optional[str]"), S("Point"),
             S("Flag"), S("Nope"), I(3), None_}
Payloads == Small \cup {D(<< <<"sound", S("woof")>> >>), D(<< <<"sound", I(3)>> >>),
                        D(<< <<"x", I(3)>>, <<"y", S("4")>> >>)}
Envelopes == {D(<< <<"__type_name", t>>, <<"__value", p>> >>) : t \in Tags, p \in Payloads}
               \cup {D(<< <<"__type_name", t>> >>) : t \in Tags}
               \cup {D(<< <<"__value", p>>, <<"__type_name", S("Dog")>> >>) : p \in Payloads}
Values   == Scalars \cup Lists \cup Objects \cup Envelopes

(***************************************************************************)
(* Resolution and materialization as steps                                 *)
(***************************************************************************)
NoResolved == [ar |-> <<>>, id |-> 0, exc |-> "", maxdepth |-> 0]
NoResult   == [ok |-> FALSE, val |-> None_, exc |-> "", path |-> "", why |-> ""]

\* the cache variables of a process that compiles nothing
CacheUnused ==
    /\ files = <<>> /\ deps = <<>> /\ mem = <<>> /\ disk = <<>> /\ task = <<>>
    /\ look = <<>>
\* the call variables of a run that receives no response text
CallUnused == wire = <<>> /\ site = <<>>
\* no time is kept
StampUnused == stamp = <<>>
\* no invocation is made through AI.__getattr__
OfUnused == calls = <<>>
\* no query is made on a schema
QueryUnused == queries = <<>>

InitConv ==
    /\ module = ConvModule
    /\ rootAnn \in ConvRoots
    /\ value \in Values
    /\ strict \in BOOLEAN
    /\ resolved = NoResolved
    /\ result = NoResult
    /\ phase = "start"
    /\ CacheUnused
    /\ CallUnused
    /\ StampUnused
    /\ OfUnused
    /\ QueryUnused

\* CallSite.__init__: self._return_type = self._parse_return_type()
Resolve ==
    /\ phase = "start"
    /\ resolved' = resolve(rootAnn, module)
    /\ phase' = "resolved"
    /\ UNCHANGED <<module, rootAnn, value, strict, result>>
    /\ UNCHANGED cacheVars
    /\ UNCHANGED callVars
    /\ UNCHANGED stamp
    /\ UNCHANGED calls
    /\ UNCHANGED queries

\* expected_return_type.convert(json_value, "__root", strict)
Materialize ==
    /\ phase = "resolved"
    /\ resolved.exc = "" /\ resolved.id # 0
    /\ result' = materialize(resolved.ar, module, resolved.id, value, strict)
    /\ phase' = "converted"
    /\ UNCHANGED <<module, rootAnn, resolved, value, strict>>
    /\ UNCHANGED cacheVars
    /\ UNCHANGED callVars
    /\ UNCHANGED stamp
    /\ UNCHANGED calls
    /\ UNCHANGED queries

NextConv == Resolve \/ Materialize
SpecConv == InitConv /\ [][NextConv]_vars

(***************************************************************************)
(* Properties of materialization (SpecConv)                                *)
(***************************************************************************)
Converted   == phase = "converted"
RootNode    == resolved.ar[resolved.id]
RootIs(kd)  == resolved.id # 0 /\ RootNode.kind = kd
\* the union's branch i applied to x in the given mode, as a top-level call
Branch(i, x, st) ==
    convert(resolved.ar, module, RootNode.items[i], x,
            field_path_of("__root", "__value"), st, {})
\* an object that carries both a branch-tag key and a payload key
IsEnvelope(x) == x.k = "dict" /\ has_key(x, "__type_name") /\ has_key(x, "__value")

\* C4: for a Union and a tagged envelope whose tag is the branch tag of a
\* branch B, the result of materializing the envelope is B's materialization
\* of the payload, whatever the order of the branches and whatever the other
\* branches accept.
C4_TaggedEnvelopeSelectsBranch ==
    (Converted /\ RootIs("Union") /\ IsEnvelope(value)
       /\ dict_get(value, "__type_name").k = "str")
    => \A b \in 1..Len(RootNode.items) :
          repr(resolved.ar, module, RootNode.items[b])
             = dict_get(value, "__type_name").v
          => result = Branch(b, dict_get(value, "__value"), strict)

\* C5: in lenient mode an untagged object given to a Union succeeds iff
\* exactly one branch materializes it in strict mode, the result is then that
\* branch's result, and otherwise it fails with the union's conversion error.
C5_UntaggedExactlyOne ==
    (Converted /\ RootIs("Union") /\ ~strict /\ value.k = "dict"
       /\ ~IsEnvelope(value))
    => LET wins == {i \in 1..Len(RootNode.items) : Branch(i, value, TRUE).ok}
       IN  /\ result.ok <=> Cardinality(wins) = 1
           /\ result.ok => \A i \in wins : result.val = Branch(i, value, TRUE).val
           /\ ~result.ok => /\ result.exc = "ValueConversionError"
                            /\ result.path = "__root"
                            /\ result.why = "untagged"

\* C5 witness: an untagged object that exactly one branch accepts has been
\* materialized in lenient mode
C5_Witness ==
    /\ Converted /\ RootIs("Union") /\ ~strict /\ value.k = "dict"
    /\ ~IsEnvelope(value) /\ Len(RootNode.items) = 2
    /\ Branch(1, value, TRUE).ok /\ ~Branch(2, value, TRUE).ok
    /\ result.ok /\ result.val.k = "instance"

\* C7: materialization of a resolved schema against a finite wire value
\* terminates: no call of convert is re-entered with the same type, value and
\* mode while it is still active.
C7_MaterializationTerminates ==
    Converted => result.exc # "RecursionError"

\* the declared fields of the root record that are absent from the input
AbsentFields == {i \in 1..Len(RootNode.fields) : ~has_key(value, RootNode.fields[i])}
\* field i of the root record, when present, materializes in the given mode
FieldOk(i, st) ==
    has_key(value, RootNode.fields[i]) =>
        convert(resolved.ar, module, RootNode.items[i],
                dict_get(value, RootNode.fields[i]),
                field_path_of("__root", RootNode.fields[i]), st, {}).ok
InstanceField(inst, name) ==
    inst.v[2][CHOOSE i \in 1..Len(inst.v[2]) : inst.v[2][i][1] = name][2]

\* C8: a declared field absent from the input object: in lenient mode an
\* Optional field becomes None and materialization goes on (the record is
\* built when the present fields materialize); in strict mode materialization
\* fails, and the error names the record's path and the first absent field
\* unless a field declared before it has already failed.
C8_MissingField ==
    (Converted /\ RootIs("Dataclass") /\ value.k = "dict" /\ AbsentFields # {})
    => IF strict
       THEN /\ ~result.ok
            /\ result.exc = "ValueConversionError"
            /\ LET f == CHOOSE i \in AbsentFields : \A j \in AbsentFields : i <= j
               IN  (\A j \in 1..(f - 1) : FieldOk(j, TRUE))
                   => /\ result.path = "__root"
                      /\ result.why = "missing:" \o RootNode.fields[f]
       ELSE /\ (\A j \in 1..Len(RootNode.fields) : FieldOk(j, FALSE)) => result.ok
            /\ result.ok =>
                 \A i \in AbsentFields :
                    resolved.ar[RootNode.items[i]].kind = "Optional"
                    => InstanceField(result.val, RootNode.fields[i]) = None_

\* C8 witness: a record with an absent Optional field was built in lenient mode
C8_Witness ==
    /\ Converted /\ RootIs("Dataclass") /\ value.k = "dict" /\ ~strict
    /\ \E i \in AbsentFields : resolved.ar[RootNode.items[i]].kind = "Optional"
    /\ result.ok /\ result.val.k = "instance"

\* the wire kind a Primitive schema names
ExactKind(type, x) ==
    CASE type = "str"   -> x.k = "str"
      [] type = "int"   -> x.k \in {"int", "float"}
      [] type = "float" -> x.k \in {"int", "float"}
      [] type = "bool"  -> x.k = "bool"

\* C9: in strict mode a Primitive accepts a non-null value only if its wire
\* kind matches the schema's kind exactly (a boolean is no number), and the
\* accepted value is returned uncoerced.
C9_StrictExactKind ==
    (Converted /\ RootIs("Basic") /\ strict /\ value.k # "None" /\ result.ok)
    => ExactKind(RootNode.name, value) /\ result.val = value

\* C10: every failure of materialization is a ValueConversionError whose
\* text carries the path of the offending sub-value.
C10_FailuresAreConversionErrors ==
    (Converted /\ ~result.ok)
    => result.exc = "ValueConversionError" /\ result.path # ""

\* C11: an array of length m against a Tuple of arity n # m fails with the
\* arity error at the tuple's path, in strict and in lenient mode; no tuple
\* value (truncated, padded or other) is produced.
C11_TupleArity ==
    (Converted /\ RootIs("Tuple") /\ value.k = "list"
       /\ Len(value.v) # Len(RootNode.items))
    => /\ ~result.ok
       /\ result.exc = "ValueConversionError"
       /\ result.path = "__root"
       /\ result.why = "arity"

\* C11 witness: a three-element array whose first two elements fit has been
\* given to a Tuple of arity two
C11_Witness ==
    /\ Converted /\ RootIs("Tuple") /\ Len(RootNode.items) = 2
    /\ value = L(<<I(3), S("4"), I(3)>>)
    /\ ~result.ok /\ result.why = "arity"

\* the root schema is Optional(T), directly or under an alias name
IsOptionalRoot ==
    \/ RootIs("Optional")
    \/ /\ RootIs("Alias") /\ RootNode.set
       /\ resolved.ar[RootNode.items[1]].kind = "Optional"
\* field i of the root record is declared Optional(T)
OptionalField(i) == resolved.ar[RootNode.items[i]].kind = "Optional"
\* every absent field of the root record is Optional, and every present
\* field materializes in the current mode
OnlyOptionalAbsent ==
    /\ RootIs("Dataclass") /\ value.k = "dict" /\ AbsentFields # {}
    /\ \A i \in AbsentFields : OptionalField(i)
    /\ \A j \in 1..Len(RootNode.fields) : FieldOk(j, strict)
\* the record was built and its absent fields are None
AbsentAreNone ==
    /\ result.ok
    /\ \A i \in AbsentFields : InstanceField(result.val, RootNode.fields[i]) = None_

\* C12 as stated: null against Optional(T) yields None, and an absent value
\* (a record field declared Optional(T) that the input object lacks) yields
\* None as well, in strict and in lenient mode alike.
C12_OptionalAbsentOrNullBothModes ==
    /\ (Converted /\ IsOptionalRoot /\ value = None_) => result = Ok(None_)
    /\ (Converted /\ OnlyOptionalAbsent) => AbsentAreNone

\* C12 as amended: null against Optional(T) yields None in both modes without
\* T's materializer being entered (an Optional whose item is itself returns,
\* it does not recurse); an absent record field declared Optional(T) yields
\* None in lenient mode, and in strict mode fails the record.
C12_OptionalNullOrLenientAbsent ==
    /\ (Converted /\ IsOptionalRoot /\ value = None_) => result = Ok(None_)
    /\ (Converted /\ OnlyOptionalAbsent /\ ~strict) => AbsentAreNone
    /\ (Converted /\ OnlyOptionalAbsent /\ strict)
         => ~result.ok /\ result.exc = "ValueConversionError"

\* C12 witness: null has been materialized against the alias Loop, an
\* Optional whose item type is Loop itself
C12_Witness ==
    /\ Converted /\ rootAnn = Name("Loop") /\ IsOptionalRoot
    /\ value = None_ /\ result = Ok(None_)

\* C13: a tagged envelope's payload is materialized against the selected
\* branch in strict mode also when the Union is materialized in lenient mode:
\* the result is the branch's strict result, so a payload that needs
\* coercion is rejected.
C13_TaggedPayloadStrict ==
    (Converted /\ RootIs("Union") /\ ~strict /\ IsEnvelope(value)
       /\ dict_get(value, "__type_name").k = "str"
       /\ dict_get(value, "__value").k # "None")
    => \A b \in 1..Len(RootNode.items) :
          repr(resolved.ar, module, RootNode.items[b])
             = dict_get(value, "__type_name").v
          => result = Branch(b, dict_get(value, "__value"), TRUE)

\* a non-null wire value that is not an object
NonObject(x) == x.k \notin {"None", "dict"}

\* C14 as stated: a non-null value that is not an object, given to a Record,
\* fails in strict and in lenient mode: no Record value is built from it.
C14_RecordRequiresObject ==
    (Converted /\ RootIs("Dataclass") /\ NonObject(value)) => ~result.ok

\* C14 as amended: a non-object fails with the conversion error at the
\* record's path, except in lenient mode a string, number or boolean given to
\* a Record with exactly one field, which is materialized as the object
\* holding that value under the field's name; an array always fails.
C14_RecordRequiresObjectOrOnlyField ==
    (Converted /\ RootIs("Dataclass") /\ NonObject(value))
    => IF ~strict /\ value.k # "list" /\ Len(RootNode.fields) = 1
       THEN result = materialize(resolved.ar, module, resolved.id,
                                 D(<< <<RootNode.fields[1], value>> >>), FALSE)
       ELSE /\ ~result.ok /\ result.exc = "ValueConversionError"
            /\ result.path = "__root" /\ result.why = "dict"

\* C14 witness: a number has been given to the two-field record Point in
\* lenient mode and was refused
C14_Witness ==
    /\ Converted /\ rootAnn = Name("Point") /\ ~strict /\ value = I(3)
    /\ ~result.ok /\ result.why = "dict"

\* the reasons of the missing-field error, one per declared field
MissingWhys ==
    UNION {{"missing:" \o module.classes[c].fields[i].name :
               i \in DOMAIN module.classes[c].fields} :
           c \in DOMAIN module.classes}

\* C29: in lenient mode an absent declared field never fails the record:
\* when the present fields materialize the record is built, with None in
\* every absent field whatever its schema, and no lenient materialization
\* ends with the missing-field error.
C29_LenientAbsentFieldIsNone ==
    (Converted /\ ~strict)
    => /\ result.why \notin MissingWhys
       /\ (RootIs("Dataclass") /\ value.k = "dict" /\ AbsentFields # {})
          => /\ (\A j \in 1..Len(RootNode.fields) : FieldOk(j, FALSE)) => result.ok
             /\ result.ok =>
                  \A i \in AbsentFields :
                     InstanceField(result.val, RootNode.fields[i]) = None_

\* C29 witness: a record was built in lenient mode although a field that is
\* not Optional was absent from the input
C29_Witness ==
    /\ Converted /\ ~strict /\ RootIs("Dataclass") /\ value.k = "dict"
    /\ result.ok
    /\ \E i \in AbsentFields :
          /\ resolved.ar[RootNode.items[i]].kind # "Optional"
          /\ InstanceField(result.val, RootNode.fields[i]) = None_

\* C30: a null wire value materializes to None without error whatever the
\* kind of the schema (Primitive, List, Tuple, Dict, Record, Union, Literal,
\* Alias, Any as well as Optional), in strict and in lenient mode
C30_NullIsNoneForEveryKind ==
    (Converted /\ value = None_) => result = Ok(None_)

\* C30 witness: a null was materialized in strict mode against a record
\* schema, which is not Optional, and came out as None
C30_Witness ==
    /\ Converted /\ strict /\ value = None_
    /\ RootIs("Dataclass") /\ ~IsOptionalRoot
    /\ result = Ok(None_)

(***************************************************************************)
(* Resolution alone, over families of cyclic declarations (SpecResolve)    *)
(***************************************************************************)
\* annotations a field or an alias of the family may carry: the records and
\* the alias as forward references, bare or under Optional, List and Union
FamilyRefs == {Constant("R1"), Constant("R2"), Constant("A1")}
FamilyAnns ==
    {Name("int"), Name("Missing")} \cup FamilyRefs
      \cup {Sub1("Optional", a) : a \in FamilyRefs}
      \cup {Sub1("List", a) : a \in FamilyRefs}
      \cup {SubN("Union", <<a, Name("int")>>) : a \in FamilyRefs}
      \cup {SubN("Union", <<Constant("R1"), Constant("R2")>>),
            SubN("Union", <<Constant("A1"), Constant("R1")>>),
            SubN("Union", <<Name("R2"), Name("R2")>>),
            BinOp(Name("R2"), Name("A1")),
            SubN("Dict", <<Name("str"), Constant("R1")>>),
            SubN("Tuple", <<Constant("R2"), Constant("A1")>>)}

\* class R1: f: a1 / class R2: g: a2; h: int / A1 = a3
FamilyModule(a1, a2, a3) ==
    [classes |->
        [R1 |-> Class("m", "R1", <<Field("f", a1)>>),
         R2 |-> Class("m", "R2", <<Field("g", a2), Field("h", Name("int"))>>)],
     globals |-> [R1 |-> "R1", R2 |-> "R2", A1 |-> "<alias>"],
     body |-> <<Assign("A1", a3)>>]
FamilyRoots == {Name("R1"), Name("R2"), Name("A1"), Sub1("List", Name("A1"))}

\* the declarations of tests/test_complex_type.py
AstModule ==
    [classes |->
        [Number   |-> Class("t", "Number", <<Field("value", Name("float"))>>),
         Boolean  |-> Class("t", "Boolean", <<Field("value", Name("bool"))>>),
         Variable |-> Class("t", "Variable", <<Field("name", Name("str"))>>),
         BinaryOp |-> Class("t", "BinaryOp",
                            <<Field("left", Constant("Expression")),
                              Field("op", Name("str")),
                              Field("right", Constant("Expression"))>>),
         UnaryOp  |-> Class("t", "UnaryOp",
                            <<Field("op", Name("str")),
                              Field("operand", Constant("Expression"))>>),
         Assignment |-> Class("t", "Assignment",
                              <<Field("variable", Name("Variable")),
                                Field("value", Name("Expression"))>>),
         IfStatement |-> Class("t", "IfStatement",
                               <<Field("condition", Name("Expression")),
                                 Field("then_block", Sub1("List", Constant("Statement"))),
                                 Field("else_block", Sub1("List", Constant("Statement")))>>),
         WhileStatement |-> Class("t", "WhileStatement",
                                  <<Field("condition", Name("Expression")),
                                    Field("body", Sub1("List", Constant("Statement")))>>),
         Program  |-> Class("t", "Program",
                            <<Field("statements", Sub1("List", Name("Statement")))>>)],
     globals |-> [Number |-> "Number", Boolean |-> "Boolean", Variable |-> "Variable",
                  BinaryOp |-> "BinaryOp", UnaryOp |-> "UnaryOp",
                  Assignment |-> "Assignment", IfStatement |-> "IfStatement",
                  WhileStatement |-> "WhileStatement", Program |-> "Program",
                  Expression |-> "<alias>", Statement |-> "<alias>"],
     body |-> <<Assign("Expression",
                       SubN("Union", <<Name("Number"), Name("Boolean"), Name("Variable"),
                                       Name("BinaryOp"), Name("UnaryOp")>>)),
                Assign("Statement",
                       SubN("Union", <<Name("Assignment"), Name("IfStatement"),
                                       Name("WhileStatement")>>))>>]
AstRoots == {Name("Program"), Name("Statement"), Name("Expression"), Name("BinaryOp")}

InitResolve ==
    /\ \/ /\ \E a1, a2, a3 \in FamilyAnns : module = FamilyModule(a1, a2, a3)
          /\ rootAnn \in FamilyRoots
       \/ /\ module = AstModule
          /\ rootAnn \in AstRoots
    /\ value = None_
    /\ strict = FALSE
    /\ resolved = NoResolved
    /\ result = NoResult
    /\ phase = "start"
    /\ CacheUnused
    /\ CallUnused
    /\ StampUnused
    /\ OfUnused
    /\ QueryUnused

NextResolve == Resolve
SpecResolve == InitResolve /\ [][NextResolve]_vars

\* C6: schema resolution terminates for every finite set of declarations,
\* records and aliases that refer to themselves directly or through Optional,
\* List or Union included: from_annotation returns (a schema, or nothing for
\* an unresolvable name) without exhausting the call stack.
C6_ResolutionTerminates ==
    phase # "start" => resolved.exc # "RecursionError"

\* C6 witness: a resolved schema with a reference back to a node that was
\* still being built (a cycle through a record or an alias)
C6_Witness ==
    /\ phase = "resolved" /\ resolved.exc = "" /\ resolved.id # 0
    /\ \E i \in DOMAIN resolved.ar :
          /\ resolved.ar[i].kind \in {"Optional", "List", "Union"}
          /\ \E j \in DOMAIN resolved.ar[i].items : resolved.ar[i].items[j] < i

\* the nodes that can be reached from node id `root` through items
RECURSIVE reach(_, _, _)
reach(ar, todo, seen) ==
    IF todo = {} THEN seen
    ELSE LET n == CHOOSE n \in todo : TRUE
             next == {ar[n].items[i] : i \in DOMAIN ar[n].items} \ (seen \cup {n})
         IN  reach(ar, (todo \ {n}) \cup next, seen \cup {n})

Reachable == reach(resolved.ar, {resolved.id}, {})
Records == {n \in Reachable : resolved.ar[n].kind = "Dataclass"}
Resolved == phase = "resolved" /\ resolved.exc = "" /\ resolved.id # 0

\* the record a field annotation names directly, "" when it names none
record_named(ann, holder) ==
    IF ann.t \in {"Name", "Constant"} /\ ann.id \notin BasicNames \cup {"Any"}
    THEN get_dataclass(module, ann.id, holder)
    ELSE ""

\* C24 as stated: the resolved graph has one node per record: any two
\* references to the same record, nested in one another or not, are bound
\* to the same node.
C24_OneNodePerRecord ==
    Resolved
        => \A a, b \in Records :
              resolved.ar[a].name = resolved.ar[b].name => a = b

\* field i of record node n names a record directly and is bound to node t:
\* t is a node of that record, the enclosing node of the record when there
\* is one, else a node made for this reference
FieldBound(n, i) ==
    LET ar == resolved.ar
        r  == record_named(module.classes[ar[n].name].fields[i].ann, ar[n].name)
        t  == ar[n].items[i]
        enclosing == chain_find(ar, n, "Dataclass", r)
    IN  r # "" => /\ ar[t].kind = "Dataclass" /\ ar[t].name = r
                  /\ IF enclosing # 0 THEN t = enclosing
                     ELSE ar[t].parent = n /\ t > n

\* C24 (amended): no record has two nodes on one chain of enclosing types: a
\* reference to a record from inside its own fields is bound to the enclosing
\* node of that record, and any other reference to a record gets a node of
\* its own.
C24_OneNodePerRecordOnChain ==
    Resolved
        => \A n \in Records :
              /\ chain_find(resolved.ar, resolved.ar[n].parent, "Dataclass",
                            resolved.ar[n].name) = 0
              /\ \A i \in DOMAIN resolved.ar[n].items : FieldBound(n, i)

\* C24 witness: a resolved schema in which a record refers back to its
\* enclosing node and another record has two nodes that are not nested
C24_Witness ==
    /\ Resolved
    /\ \E n \in Records : \E i \in DOMAIN resolved.ar[n].items :
          resolved.ar[n].items[i] <= n
    /\ \E a, b \in Records :
          a # b /\ resolved.ar[a].name = resolved.ar[b].name

\* node n has its children: _item_type, _item_types, _key_type and
\* _value_type, _types, _original_type or _field_types have been assigned
Populated(n) ==
    LET t == resolved.ar[n]
    IN  /\ t.set
        /\ \A i \in DOMAIN t.items : t.items[i] \in DOMAIN resolved.ar
        /\ t.kind \in {"List", "Optional", "Alias"} => Len(t.items) = 1
        /\ t.kind = "Dict" => Len(t.items) = 2
        /\ t.kind \in {"Tuple", "Union"} => Len(t.items) >= 1
        /\ t.kind = "Dataclass" => Len(t.items) = Len(t.fields)

\* C25: a schema that resolution returns has every node reachable from its
\* root populated, placeholders reached through recursive references
\* included; when a nested member does not resolve, nothing is returned.
C25_ReturnedSchemaIsPopulated ==
    phase = "resolved" /\ resolved.id # 0
        => /\ resolved.exc = ""
           /\ \A n \in Reachable : Populated(n)

\* C25 witness: a returned schema in which an alias or record placeholder is
\* referred to from below itself
C25_Witness ==
    /\ Resolved
    /\ \E n, m \in Reachable :
          /\ resolved.ar[n].kind \in {"Alias", "Dataclass"}
          /\ m > n
          /\ \E i \in DOMAIN resolved.ar[m].items : resolved.ar[m].items[i] = n
          /\ resolved.ar[m].parent # 0

\* C26: in every Union of a resolved schema the branch tags, the repr of the
\* branches, are pairwise distinct.
C26_BranchTagsDistinct ==
    Resolved
        => \A u \in Reachable :
              resolved.ar[u].kind = "Union"
                  => \A i, j \in DOMAIN resolved.ar[u].items :
                        i # j => repr(resolved.ar, module, resolved.ar[u].items[i])
                                    # repr(resolved.ar, module, resolved.ar[u].items[j])

(***************************************************************************)
(* The compilation cache of DefaultCompiler (SpecCache)                    *)
(*                                                                         *)
(* One call-site identity.  Process p1 is long-lived and runs the          *)
(* coroutines t1 and t2 on one event loop.  Process p2 is a run of the     *)
(* same program that makes the call once, in t3, and exits when the call   *)
(* returns; it starts anew with the next call.  The processes share the    *)
(* cache directory.  A coroutine gives up the event loop only at the await *)
(* of the generator call; the file system is shared at the granularity of  *)
(* open() and write().                                                     *)
(***************************************************************************)
Procs    == {"p1", "p2"}
OneShot  == {"p2"}
Tasks    == {"t1", "t2", "t3"}
proc_of(t) == IF t = "t3" THEN "p2" ELSE "p1"
\* "a" is the call site's module, "b" a module that a type of the call site
\* comes from once "a" has been edited to refer to it
Paths    == {"a", "b"}
Contents == 0..MaxVersion
Range(f) == {f[i] : i \in DOMAIN f}

\* SemanticCall._parse_dependent_modules (semantic_call.py 160-168): the call
\* site's own module first, then the modules of its types
dependent_modules(fs) == IF fs["a"] = 0 THEN <<"a">> ELSE <<"a", "b">>

\* module_hash (module_util.py 7-12): md5 of the file's text, as hex text
module_hash(content) == "md5-" \o ToString(content)

\* the cells of the cache file's text
Line(path, h) == [k |-> "line", p |-> path, h |-> h, art |-> <<>>]
Sep           == [k |-> "sep",  p |-> "", h |-> "", art |-> <<>>]
Text(art)     == [k |-> "text", p |-> "", h |-> "", art |-> <<art>>]
NoFile        == [exists |-> FALSE, cells |-> <<>>]

\* the dependency hashes taken now (default_compiler.py 122-125)
hashes_now(ds, fs) == [d \in Range(ds) |-> module_hash(fs[d])]

\* DefaultCompilationResult.from_llm_response (default_compiler.py 114-126)
from_llm_response(art, ds, fs) == [hashes |-> hashes_now(ds, fs), artifact |-> art]

\* cache_file_content of _save_cache (default_compiler.py 254-260)
cache_file_content(art, ds, fs) ==
    [i \in 1..Len(ds) |-> Line(ds[i], module_hash(fs[ds[i]]))]
        \o <<Sep, Text(art)>>

\* cache_content.find("---\n"): the first separator, 0 when there is none
find_sep(cells) ==
    IF \E i \in 1..Len(cells) : cells[i].k = "sep"
    THEN CHOOSE i \in 1..Len(cells) :
            cells[i].k = "sep" /\ \A j \in 1..(i - 1) : cells[j].k # "sep"
    ELSE 0

\* the dict built from the hash lines, a later line replacing an earlier one
lines_dict(ls) ==
    [d \in {ls[i].p : i \in 1..Len(ls)} |->
        ls[CHOOSE i \in 1..Len(ls) :
              ls[i].p = d /\ \A j \in (i + 1)..Len(ls) : ls[j].p # d].h]

\* DefaultCompilationResult.from_cache_file (default_compiler.py 128-141):
\* line.split(":") fails on text that is no hash line, ET.fromstring on text
\* that is not exactly one document
from_cache_file(cells) ==
    LET i    == find_sep(cells)
        ls   == SubSeq(cells, 1, i - 1)
        rest == SubSeq(cells, i + 1, Len(cells))
    IN  IF i <= 1 \/ \E j \in 1..Len(ls) : ls[j].k # "line"
        THEN [exc |-> "ValueError", entry |-> <<>>]
        ELSE IF Len(rest) # 1 \/ rest[1].k # "text"
        THEN [exc |-> "ParseError", entry |-> <<>>]
        ELSE [exc |-> "",
              entry |-> <<[hashes |-> lines_dict(ls), artifact |-> rest[1].art[1]]>>]

\* DefaultCompiler._get_cache (default_compiler.py 234-245)
get_cache(p) ==
    IF mem[p] # <<>> THEN [exc |-> "", entry |-> mem[p]]
    ELSE IF disk.exists THEN from_cache_file(disk.cells)
    ELSE [exc |-> "", entry |-> <<>>]

\* the loop of DefaultCompiler.compile (default_compiler.py 270-275) from the
\* i-th dependency on: "hit", "miss", or the KeyError of the subscript
check_from(hashes, ds, fs, i) ==
    IF \A j \in i..Len(ds) : ds[j] \in DOMAIN hashes /\ hashes[ds[j]] = module_hash(fs[ds[j]])
    THEN "hit"
    ELSE LET j == CHOOSE j \in i..Len(ds) :
                     /\ ~(ds[j] \in DOMAIN hashes /\ hashes[ds[j]] = module_hash(fs[ds[j]]))
                     /\ \A m \in i..(j - 1) :
                           ds[m] \in DOMAIN hashes /\ hashes[ds[m]] = module_hash(fs[ds[m]])
         IN  IF ds[j] \in DOMAIN hashes THEN "miss" ELSE "KeyError"

\* variant that compares only the call site's own module
modules_unmodified_first(hashes, ds, fs) ==
    check_from(hashes, SubSeq(ds, 1, 1), fs, 1)

\* variant that also takes a module written after the cache file as modified
modules_unmodified_by_mtime(hashes, ds, fs) ==
    IF \E d \in Range(ds) : stamp.mtime[d] > stamp.saved THEN "miss"
    ELSE check_from(hashes, ds, fs, 1)

\* DefaultCompiler.compile's verdict on a cached result (default_compiler.py
\* 270-278)
modules_unmodified(hashes, ds, fs) ==
    check_from(hashes, ds, fs, 1)

\* CacheItem.check_valid (default_execution_engine.py 93-103)
check_valid(recorded, ds, fs) ==
    /\ Cardinality(Range(ds)) = Cardinality(DOMAIN recorded)
    /\ \A i \in 1..Len(ds) :
          /\ ds[i] \in DOMAIN recorded
          /\ module_hash(fs[ds[i]]) = recorded[ds[i]]

\* the modification times a write leaves behind, where time is kept
cache_file_written(st) == IF st = <<>> THEN st ELSE [st EXCEPT !.saved = st.now]
module_file_written(st, f) ==
    IF st = <<>> THEN st ELSE [st EXCEPT !.mtime[f] = st.now]

\* a coroutine that is not inside compile()
Idle == [pc |-> "idle", art |-> <<>>, content |-> <<>>]
NoLook == [t |-> "", outcome |-> "", deps |-> <<>>, entry |-> <<>>, ret |-> <<>>]
\* what is left of a process's dict or call site once compile() has returned
AtExit(p, x) == IF p \in OneShot THEN <<>> ELSE x
\* no coroutine of process p holds the event loop / the interpreter
Free(p) == \A t \in Tasks : proc_of(t) = p => task[t].pc # "writing"

\* text written at offset 0 of a file opened with "w": what the file held
\* beyond the text's end stays
write_at_start(cells, chunk) ==
    [i \in 1..Max(Len(cells), Len(chunk)) |->
        IF i <= Len(chunk) THEN chunk[i] ELSE cells[i]]

InitCache ==
    /\ module = ConvModule /\ rootAnn = Name("int") /\ value = None_
    /\ strict = FALSE /\ resolved = NoResolved /\ result = NoResult
    /\ phase = "start"
    /\ files = [f \in Paths |-> 0]
    /\ deps = [p \in Procs |-> AtExit(p, dependent_modules(files))]
    /\ mem = [p \in Procs |-> <<>>]
    /\ disk = NoFile
    /\ task = [t \in Tasks |-> Idle]
    /\ look = NoLook
    /\ CallUnused
    /\ StampUnused
    /\ OfUnused
    /\ QueryUnused

\* DefaultCompiler.compile up to its return or to the await of the generator
\* (default_compiler.py 267-280, 282-298)
Compile(t) ==
    LET p  == proc_of(t)
        ds == IF p \in OneShot THEN dependent_modules(files) ELSE deps[p]
        g  == get_cache(p)
        verdict == IF g.exc # "" THEN g.exc
                   ELSE IF g.entry = <<>> THEN "nocache"
                   ELSE modules_unmodified(g.entry[1].hashes, ds, files)
        found  == IF g.exc = "" /\ g.entry # <<>> THEN g.entry ELSE mem[p]
        awaits == verdict \in {"miss", "nocache"}
    IN  /\ task[t].pc = "idle" /\ Free(p)
        /\ mem' = [mem EXCEPT ![p] = IF awaits THEN found ELSE AtExit(p, found)]
        /\ deps' = [deps EXCEPT ![p] = IF awaits THEN ds ELSE AtExit(p, ds)]
        /\ look' = [t |-> t, outcome |-> verdict, deps |-> ds, entry |-> g.entry,
                    ret |-> IF verdict = "hit" THEN <<g.entry[1].artifact>> ELSE <<>>]
        /\ task' = IF awaits
                   THEN [task EXCEPT ![t] =
                           [pc |-> "awaiting", art |-> <<p>>, content |-> <<>>]]
                   ELSE task
        /\ UNCHANGED <<files, disk>>
        /\ UNCHANGED convVars
        /\ UNCHANGED callVars
        /\ UNCHANGED stamp
        /\ UNCHANGED calls
        /\ UNCHANGED queries

\* the generator answers: from_llm_response, then _save_cache up to open(),
\* which creates or truncates the file (default_compiler.py 299-301, 247-261)
Respond(t) ==
    LET p == proc_of(t) IN
    /\ task[t].pc = "awaiting" /\ Free(p)
    /\ mem' = [mem EXCEPT ![p] = <<from_llm_response(task[t].art[1], deps[p], files)>>]
    /\ disk' = [exists |-> TRUE, cells |-> <<>>]
    /\ UNCHANGED <<files, deps>>
    /\ stamp' = cache_file_written(stamp)
    /\ UNCHANGED calls
    /\ UNCHANGED queries
    /\ task' = [task EXCEPT ![t] =
                  [pc |-> "writing", art |-> task[t].art,
                   content |-> cache_file_content(task[t].art[1], deps[p], files)]]
    /\ look' = NoLook
    /\ UNCHANGED convVars
    /\ UNCHANGED callVars

\* variant in which the failing attempt has put its result in the dict and
\* opened the cache file before the exception leaves _do_compile
GeneratorFails_after_save(t) ==
    LET p == proc_of(t) IN
    /\ task[t].pc = "awaiting" /\ Free(p)
    /\ task' = [task EXCEPT ![t] = Idle]
    /\ mem' = [mem EXCEPT ![p] = AtExit(p, <<from_llm_response(task[t].art[1], deps[p], files)>>)]
    /\ deps' = [deps EXCEPT ![p] = AtExit(p, deps[p])]
    /\ disk' = [exists |-> TRUE, cells |-> <<>>]
    /\ look' = NoLook
    /\ UNCHANGED files
    /\ UNCHANGED convVars
    /\ UNCHANGED callVars
    /\ UNCHANGED stamp
    /\ UNCHANGED calls
    /\ UNCHANGED queries

\* the generator call raises or its answer is no XML: the exception leaves
\* _do_compile (default_compiler.py 307-309)
GeneratorFails(t) ==
    LET p == proc_of(t) IN
    /\ task[t].pc = "awaiting" /\ Free(p)
    /\ task' = [task EXCEPT ![t] = Idle]
    /\ mem' = [mem EXCEPT ![p] = AtExit(p, mem[p])]
    /\ deps' = [deps EXCEPT ![p] = AtExit(p, deps[p])]
    /\ look' = NoLook
    /\ UNCHANGED <<files, disk>>
    /\ UNCHANGED convVars
    /\ UNCHANGED callVars
    /\ UNCHANGED stamp
    /\ UNCHANGED calls
    /\ UNCHANGED queries

\* f.write and the flush at close: the text reaches the file at the offset
\* of this open(), the file is closed and _do_compile returns
\* (default_compiler.py 261-262, 302-306)
Write(t) ==
    LET p == proc_of(t) IN
    /\ task[t].pc = "writing"
    /\ disk' = [exists |-> TRUE, cells |-> write_at_start(disk.cells, task[t].content)]
    /\ task' = [task EXCEPT ![t] = Idle]
    /\ mem' = [mem EXCEPT ![p] = AtExit(p, mem[p])]
    /\ deps' = [deps EXCEPT ![p] = AtExit(p, deps[p])]
    /\ look' = NoLook
    /\ UNCHANGED files
    /\ UNCHANGED convVars
    /\ UNCHANGED callVars
    /\ stamp' = cache_file_written(stamp)
    /\ UNCHANGED calls
    /\ UNCHANGED queries

\* somebody edits a source file
Edit(f, c) ==
    /\ c # files[f]
    /\ files' = [files EXCEPT ![f] = c]
    /\ look' = NoLook
    /\ UNCHANGED <<deps, mem, disk, task>>
    /\ UNCHANGED convVars
    /\ UNCHANGED callVars
    /\ stamp' = module_file_written(stamp, f)
    /\ UNCHANGED calls
    /\ UNCHANGED queries

\* process p ends and starts again: the call site is built anew from the
\* source, the compiler's dict is empty
Restart(p) ==
    /\ p \notin OneShot
    /\ \A t \in Tasks : proc_of(t) = p => task[t].pc = "idle"
    /\ mem[p] # <<>> \/ deps[p] # dependent_modules(files)
    /\ mem' = [mem EXCEPT ![p] = <<>>]
    /\ deps' = [deps EXCEPT ![p] = dependent_modules(files)]
    /\ look' = NoLook
    /\ UNCHANGED <<files, disk, task>>
    /\ UNCHANGED convVars
    /\ UNCHANGED callVars
    /\ UNCHANGED stamp
    /\ UNCHANGED calls
    /\ UNCHANGED queries

NextCache ==
    \/ \E t \in Tasks : Compile(t)
    \/ \E t \in Tasks : Respond(t)
    \/ \E t \in Tasks : GeneratorFails(t)
    \/ \E t \in Tasks : Write(t)
    \/ \E f \in Paths, c \in Contents : Edit(f, c)
    \/ \E p \in Procs : Restart(p)
SpecCache == InitCache /\ [][NextCache]_vars

\* the content whose hash is h
ContentOf(h) == CHOOSE c \in Contents : module_hash(c) = h
\* a lookup has just found an entry recorded for the identity's dependency set
FoundEntryFor(DS) ==
    /\ look.outcome \in {"hit", "miss"}
    /\ DOMAIN look.entry[1].hashes = DS

\* C1: a lookup that finds an entry recorded for the identity's dependency
\* set D is a hit, returning the cached artifact and starting no compilation,
\* exactly when every path of D still has the content whose hash was recorded;
\* a change of any path of D makes it a miss that recompiles, and the content
\* of files outside D plays no part.  CacheItem.check_valid gives the same
\* verdict.
C1_CacheInvalidation ==
    LET DS == Range(look.deps)
        e == look.entry[1]
    IN  (look.outcome # "" /\ FoundEntryFor(DS))
        => /\ look.outcome = "hit"
                <=> \A d \in DS : files[d] = ContentOf(e.hashes[d])
           /\ look.outcome = "hit"
                => look.ret = <<e.artifact>> /\ task[look.t].pc = "idle"
           /\ look.outcome = "miss"
                => look.ret = <<>> /\ task[look.t].pc = "awaiting"
           /\ check_valid(e.hashes, look.deps, files)
                <=> look.outcome = "hit"

\* C1 witness: a hit on an entry although a file outside D has been edited
C1_Witness ==
    /\ look.outcome = "hit"
    /\ FoundEntryFor(Range(look.deps))
    /\ "b" \notin Range(look.deps)
    /\ files["b"] # 0

\* C2: at most one compilation of the identity is in flight in a process: a
\* second caller never starts a generator call while one is awaited.
C2_SingleFlight ==
    \A p \in Procs :
        Cardinality({t \in Tasks : proc_of(t) = p /\ task[t].pc = "awaiting"}) <= 1

\* C3: at every instant the identity's cache file is absent or holds one
\* complete entry (hash lines, separator, the whole artifact and nothing
\* else), and no lookup fails on a truncated or interleaved file.
C3_AtomicCacheWrite ==
    /\ disk.exists => from_cache_file(disk.cells).exc = ""
    /\ look.outcome \notin {"ValueError", "ParseError"}

(***************************************************************************)
(* From the response text to the typed value: call_llm_async and           *)
(* call_llm_sync (SpecCall)                                                *)

\* the lookup found an entry whose recorded dependency paths are not the
\* call site's current dependencies
DependencySetDiffers ==
    /\ look.outcome # "" /\ look.entry # <<>>
    /\ DOMAIN look.entry[1].hashes # Range(look.deps)

\* C23: when the call site's dependency set differs from the recorded one
\* (a path added or a recorded path no longer a dependency) the lookup is
\* a miss that recompiles: it neither raises nor returns the cached artifact.
C23_DependencySetChangeIsMiss ==
    DependencySetDiffers
        => /\ look.outcome = "miss"
           /\ look.ret = <<>>
           /\ task[look.t].pc = "awaiting"

\* task t leaves _do_compile by the exception of the generator call or of
\* the parsing of its answer: it was awaiting and is idle without having
\* written
FailedAttempt(t) == task[t].pc = "awaiting" /\ task'[t].pc = "idle"

\* C28: a compilation attempt that fails ends with the exception, without a
\* second request, and leaves the dict of its process and the identity's
\* cache file as they were.
C28_FailedCompileLeavesCache ==
    [][\A t \in Tasks :
          FailedAttempt(t)
              => /\ disk' = disk
                 /\ mem'[proc_of(t)] = AtExit(proc_of(t), mem[proc_of(t)])
                 /\ \A u \in Tasks : u # t => task'[u] = task[u]]_vars

\* C28 witness: an attempt is awaiting the generator while the identity has
\* a cache file and the process an entry in its dict, the attempt having
\* been started because a dependency changed
C28_Witness ==
    \E t \in Tasks :
        /\ task[t].pc = "awaiting"
        /\ disk.exists /\ disk.cells # <<>>
        /\ mem[proc_of(t)] # <<>>

(***************************************************************************)
\* json.loads and json_repair.loads are library calls: a response text is
\* described by what each of them does with it
Loaded(x)  == [ok |-> TRUE, val |-> x]
NotLoaded  == [ok |-> FALSE, val |-> None_]
JsonValues ==
    {None_, I(3), S("4"), S("woof"), L(<<I(3), S("4")>>),
     D(<< <<"x", I(3)>>, <<"y", S("4")>> >>), D(<< <<"sound", S("woof")>> >>),
     D(<< <<"__type_name", S("Dog")>>, <<"__value", D(<< <<"sound", S("woof")>> >>)>> >>)}
Texts ==
    {[loads |-> Loaded(x), repair |-> Loaded(x)] : x \in JsonValues}
      \cup {[loads |-> NotLoaded, repair |-> Loaded(x)] : x \in JsonValues}
      \cup {[loads |-> NotLoaded, repair |-> NotLoaded]}

\* the exception objects of the two parse attempts
e_1 == "e_1: json.loads"
e_2 == "e_2: json_repair.loads"

InitCall ==
    /\ module = ConvModule
    /\ rootAnn \in ConvRoots
    /\ value = None_
    /\ strict = FALSE
    /\ resolved = NoResolved
    /\ result = NoResult
    /\ phase = "start"
    /\ CacheUnused
    /\ \E t \in Texts : wire = [text |-> t, stage |-> "text", caught |-> <<>>]
    /\ site = <<>>
    /\ StampUnused
    /\ OfUnused
    /\ QueryUnused

\* "try: json_value = json.loads(json_str) / except Exception as e_1"
\* (call_llm.py 96-99)
Loads ==
    /\ phase = "resolved" /\ resolved.exc = "" /\ resolved.id # 0
    /\ wire.stage = "text"
    /\ IF wire.text.loads.ok
       THEN /\ value' = wire.text.loads.val
            /\ wire' = [wire EXCEPT !.stage = "parsed"]
       ELSE /\ value' = value
            /\ wire' = [wire EXCEPT !.stage = "repairing", !.caught = <<e_1>>]
    /\ UNCHANGED <<module, rootAnn, resolved, strict, result, phase, site>>
    /\ UNCHANGED cacheVars
    /\ UNCHANGED stamp
    /\ UNCHANGED calls
    /\ UNCHANGED queries

\* "except Exception as e_2: ... raise e_2" (call_llm.py 103-107)
repair_failure_raises(caught) == caught[2]

\* "try: json_value = json_repair.loads(json_str) / except Exception as e_2"
\* (call_llm.py 100-107)
Repair ==
    /\ wire.stage = "repairing"
    /\ IF wire.text.repair.ok
       THEN /\ value' = wire.text.repair.val
            /\ wire' = [wire EXCEPT !.stage = "parsed"]
            /\ result' = result
       ELSE /\ value' = value
            /\ wire' = [wire EXCEPT !.stage = "raised",
                                    !.caught = Append(wire.caught, e_2)]
            /\ result' = Throw(repair_failure_raises(Append(wire.caught, e_2)))
    /\ UNCHANGED <<module, rootAnn, resolved, strict, phase, site>>
    /\ UNCHANGED cacheVars
    /\ UNCHANGED stamp
    /\ UNCHANGED calls
    /\ UNCHANGED queries

\* "result = llm_call_info.expected_return_type.convert(json_value, "__root",
\* strict=False)" (call_llm.py 112)
Convert ==
    /\ wire.stage = "parsed" /\ phase = "resolved"
    /\ result' = materialize(resolved.ar, module, resolved.id, value, FALSE)
    /\ phase' = "converted"
    /\ UNCHANGED <<module, rootAnn, resolved, value, strict>>
    /\ UNCHANGED cacheVars
    /\ UNCHANGED callVars
    /\ UNCHANGED stamp
    /\ UNCHANGED calls
    /\ UNCHANGED queries

NextCall == Resolve \/ Loads \/ Repair \/ Convert
SpecCall == InitCall /\ [][NextCall]_vars

\* C15: text that json.loads rejects goes to the repair step; when the repair
\* succeeds the repaired value is what is materialized, and when the repair
\* fails too the exception that reaches the caller is the one of the first
\* parse attempt, not the repair step's.
C15_RepairFailureSurfacesOriginal ==
    /\ (wire.stage = "raised")
         => /\ wire.caught = <<e_1, e_2>>
            /\ result.exc = e_1
    /\ (phase = "converted" /\ ~wire.text.loads.ok)
         => /\ wire.text.repair.ok
            /\ result = materialize(resolved.ar, module, resolved.id,
                                    wire.text.repair.val, FALSE)

(***************************************************************************)
(* The declaration a call site's schema is resolved from (SpecSite):       *)
(* call_site.py and its successor semantic_call.py / assign_ctx.py         *)
(***************************************************************************)
\* statements of a module's syntax tree
Target(attr, base, id) == [attr |-> attr, value |-> base, id |-> id]
Stmt(t, id, target, ann, args, body) ==
    [t |-> t, id |-> id, target |-> target, ann |-> ann, args |-> args,
     body |-> body]
NoTarget == Target(FALSE, "", "")
AnnAssign(id, target, ann) == Stmt("AnnAssign", id, target, ann, <<>>, <<>>)
FunctionDef(id, args, body) == Stmt("FunctionDef", id, NoTarget, <<>>, args, body)
ClassDef(id, body) == Stmt("ClassDef", id, NoTarget, <<>>, <<>>, body)
IfStmt(body) == Stmt("If", "if", NoTarget, <<>>, <<>>, body)
ModuleAst(body) == Stmt("Module", "module", NoTarget, <<>>, <<>>, body)
Arg(id, name, ann) == Stmt("arg", id, Target(FALSE, "", name), ann, <<>>, <<>>)
Opt(present, x) == IF present THEN <<x>> ELSE <<>>

\* ast.walk: breadth-first, children in source order
RECURSIVE walk(_)
walk(todo) ==
    IF todo = <<>> THEN <<>>
    ELSE <<todo[1]>> \o walk(SubSeq(todo, 2, Len(todo)) \o todo[1].body)

Found(n)  == [exc |-> "", node |-> <<n>>]
NotFound  == [exc |-> "", node |-> <<>>]
Broke(e)  == [exc |-> e, node |-> <<>>]

\* target.value.id + '.' + target.attr, or target.id
var_name_of(target) ==
    IF target.attr THEN target.value \o "." \o target.id ELSE target.id

\* "isinstance(node, ast.AnnAssign) and node.target.id == var_name" over a
\* walk (semantic_call.py 219-221, 237-239): an attribute target has no id
RECURSIVE scan_by_id(_, _, _)
scan_by_id(nodes, i, var_name) ==
    IF i > Len(nodes) THEN NotFound
    ELSE IF nodes[i].t # "AnnAssign" THEN scan_by_id(nodes, i + 1, var_name)
    ELSE IF nodes[i].target.attr THEN Broke("AttributeError")
    ELSE IF nodes[i].target.id = var_name THEN Found(nodes[i])
    ELSE scan_by_id(nodes, i + 1, var_name)

\* "for arg in self.enclosing_function_def.args.args" (semantic_call.py 224-226)
RECURSIVE scan_args(_, _, _)
scan_args(args, i, var_name) ==
    IF i > Len(args) THEN NotFound
    ELSE IF args[i].target.id = var_name THEN Found(args[i])
    ELSE scan_args(args, i + 1, var_name)

\* SemanticCall.get_annotated_declaration_node (semantic_call.py 206-241),
\* outside a notebook; fdef is enclosing_function_def, <<>> when there is none
get_annotated_declaration_node(target, fdef, tree) ==
    IF target.attr /\ target.value = "self"
    THEN Broke("AttributeError")   \* self._get_enclosing_class_def is not defined
    ELSE LET var_name == var_name_of(target)
             in_function == IF fdef = <<>> THEN NotFound
                            ELSE scan_by_id(walk(fdef), 1, var_name)
             in_args == IF fdef = <<>> THEN NotFound
                        ELSE scan_args(fdef[1].args, 1, var_name)
         IN  IF in_function.exc # "" \/ in_function.node # <<>> THEN in_function
             ELSE IF in_args.node # <<>> THEN in_args
             ELSE scan_by_id(walk(<<tree>>), 1, var_name)

\* the loop of AssignCallSite._find_declaration_node over the module file
\* (call_site.py 291-300)
RECURSIVE scan_module_file(_, _, _)
scan_module_file(nodes, i, var_name) ==
    IF i > Len(nodes) THEN NotFound
    ELSE IF nodes[i].t = "AnnAssign" /\ var_name_of(nodes[i].target) = var_name
    THEN Found(nodes[i])
    ELSE scan_module_file(nodes, i + 1, var_name)

\* AssignCallSite._find_declaration_node (call_site.py 274-302), outside a
\* notebook
find_declaration_node(var_name, tree) ==
    scan_module_file(walk(<<tree>>), 1, var_name)

\* AnyType(None) (call_site.py 265)
any_type == Res(<<[Node("Any", 0, "Any") EXCEPT !.set = TRUE]>>, 1, 1)

\* "tuple_type = TupleType(None, None); item_types = [AnyType(tuple_type) for
\* _ in range(elts_len)]" (call_site.py 245-251)
tuple_of_any(elts_len) ==
    Res(<<[Node("Tuple", 0, "Tuple") EXCEPT
              !.items = [i \in 1..elts_len |-> i + 1], !.set = TRUE]>>
          \o [i \in 1..elts_len |-> [Node("Any", 1, "Any") EXCEPT !.set = TRUE]],
        1, 1)

\* "if type: return type / raise RuntimeError(...)" (call_site.py 268-272,
\* 346-350; assign_ctx.py 40-44)
type_or_raise(r) ==
    IF r.exc # "" THEN Raise(<<>>, r.exc, r.maxdepth)
    ELSE IF r.id # 0 THEN r
    ELSE Raise(<<>>, "RuntimeError", r.maxdepth)

\* AssignCallSite._parse_return_type (call_site.py 243-272)
AssignCallSite_parse_return_type(call, tree, cs) ==
    IF call.elts_len > 0 THEN tuple_of_any(call.elts_len)
    ELSE LET declaration_node == find_declaration_node(var_name_of(call.target), tree)
         IN  IF declaration_node.node = <<>> THEN any_type
             ELSE type_or_raise(resolve(declaration_node.node[1].ann, cs))

\* AssignCtx._parse_return_type (assign_ctx.py 16-44); the annotation is
\* resolved by the resolver of type.py
AssignCtx_parse_return_type(call, fdef, tree, cs) ==
    IF call.return_type # <<>> THEN resolve(call.return_type[1], cs)
    ELSE IF call.elts_len > 0 THEN Raise(<<>>, "RuntimeError", 0)
    ELSE IF call.target.attr /\ call.target.value # "self"
    THEN Raise(<<>>, "RuntimeError", 0)
    ELSE LET declaration_node == get_annotated_declaration_node(call.target, fdef, tree)
         IN  IF declaration_node.exc # "" THEN Raise(<<>>, declaration_node.exc, 0)
             ELSE IF declaration_node.node = <<>> THEN Raise(<<>>, "RuntimeError", 0)
             ELSE type_or_raise(resolve(declaration_node.node[1].ann, cs))

\* ReturnCallSite._parse_return_type (call_site.py 330-350): parent is the
\* first AsyncFunctionDef of the call's tree; AnyType() lacks the required
\* parent_type argument
ReturnCallSite_parse_return_type(parent, cs) ==
    IF parent = <<>> THEN Raise(<<>>, "RuntimeError", 0)
    ELSE IF parent[1].ann = <<>> THEN Raise(<<>>, "TypeError", 0)
    ELSE type_or_raise(resolve(parent[1].ann[1], cs))

\* the declarations of x a module of the family may hold, by place: at module
\* level (m1), in an unrelated function (o1), in the enclosing function f
\* (f1), as f's parameter (ar), in the block of f that holds the call (b1),
\* and as self.x in the enclosing class C (c1)
DeclIds == {"m1", "o1", "f1", "ar", "b1", "c1"}
X       == Target(FALSE, "", "x")
SelfX   == Target(TRUE, "self", "x")
F_def(present, a) ==
    FunctionDef("f", Opt("ar" \in present, Arg("ar", "x", a)),
                Opt("f1" \in present, AnnAssign("f1", X, a))
                  \o <<IfStmt(Opt("b1" \in present, AnnAssign("b1", X, a)))>>)
M_def == FunctionDef("m", <<>>, <<>>)
Tree(present, a) ==
    ModuleAst(Opt("m1" \in present, AnnAssign("m1", X, a))
                \o <<FunctionDef("other", <<>>,
                                 Opt("o1" \in present, AnnAssign("o1", X, a)))>>
                \o <<F_def(present, a)>>
                \o <<ClassDef("C", <<FunctionDef("__init__", <<>>,
                                        Opt("c1" \in present,
                                            AnnAssign("c1", SelfX, a))),
                                     M_def>>)>>)
SiteAnns == {Name("int"), Name("Point"), Name("Ghost"), Sub1("List", Name("Ghost"))}

\* the statements that hold the call: where, the assignment target, the
\* number of elements of a tuple target, and the return_type keyword
Call(at, target, elts_len, return_type) ==
    [at |-> at, target |-> target, elts_len |-> elts_len,
     return_type |-> return_type]
AssignCalls ==
    {Call("block", X, 0, <<>>), Call("module", X, 0, <<>>),
     Call("method", SelfX, 0, <<>>), Call("block", NoTarget, 2, <<>>)}
OverrideCalls == {Call("block", X, 0, <<a>>) : a \in {Name("int"), Name("Ghost")}}
\* the functions a return statement may sit in: <<>> when none is an
\* AsyncFunctionDef, else the function with its returns annotation in ann
ReturnParents ==
    {<<>>, <<Stmt("AsyncFunctionDef", "g", NoTarget, <<>>, <<>>, <<>>)>>}
      \cup {<<Stmt("AsyncFunctionDef", "g", NoTarget, <<a>>, <<>>, <<>>)>> : a \in SiteAnns}

\* enclosing_function_def of a call (semantic_call.py 277-282)
enclosing_function_def(call, present, a) ==
    CASE call.at = "block"  -> <<F_def(present, a)>>
      [] call.at = "method" -> <<M_def>>
      [] call.at = "module" -> <<>>

NoSite(impl, call, present, a, parent) ==
    [impl |-> impl, call |-> call, present |-> present, ann |-> a,
     parent |-> parent, searched |-> FALSE, found |-> NotFound]

InitSite ==
    /\ module = ConvModule /\ rootAnn = Name("int") /\ value = None_
    /\ strict = FALSE /\ resolved = NoResolved /\ result = NoResult
    /\ phase = "start"
    /\ CacheUnused
    /\ wire = <<>>
    /\ StampUnused
    /\ OfUnused
    /\ QueryUnused
    /\ \/ \E present \in SUBSET DeclIds, a \in SiteAnns, call \in AssignCalls :
             \E impl \in {"AssignCallSite", "AssignCtx"} :
                site = NoSite(impl, call, present, a, <<>>)
       \/ \E present \in SUBSET DeclIds, a \in SiteAnns, call \in OverrideCalls :
             site = NoSite("AssignCtx", call, present, a, <<>>)
       \/ \E parent \in ReturnParents :
             site = NoSite("ReturnCallSite", Call("return", NoTarget, 0, <<>>),
                           {}, Name("int"), parent)

\* CallSite.__init__ of an AssignCallSite: self._return_type =
\* self._parse_return_type() (call_site.py 101, 243-272)
AssignCallSiteInit ==
    /\ phase = "start" /\ site # <<>> /\ site.impl = "AssignCallSite"
    /\ LET tree == Tree(site.present, site.ann)
           searched == site.call.elts_len = 0
       IN  /\ resolved' = AssignCallSite_parse_return_type(site.call, tree, module)
           /\ site' = [site EXCEPT
                         !.searched = searched,
                         !.found = IF searched
                                   THEN find_declaration_node(
                                            var_name_of(site.call.target), tree)
                                   ELSE NotFound]
    /\ phase' = "resolved"
    /\ UNCHANGED <<module, rootAnn, value, strict, result, wire>>
    /\ UNCHANGED cacheVars
    /\ UNCHANGED stamp
    /\ UNCHANGED calls
    /\ UNCHANGED queries

\* AssignCtx.__init__: self._return_type = self._parse_return_type()
\* (assign_ctx.py 11-44)
AssignCtxInit ==
    /\ phase = "start" /\ site # <<>> /\ site.impl = "AssignCtx"
    /\ LET tree == Tree(site.present, site.ann)
           fdef == enclosing_function_def(site.call, site.present, site.ann)
           searched == /\ site.call.return_type = <<>>
                       /\ site.call.elts_len = 0
                       /\ ~(site.call.target.attr /\ site.call.target.value # "self")
       IN  /\ resolved' = AssignCtx_parse_return_type(site.call, fdef, tree, module)
           /\ site' = [site EXCEPT
                         !.searched = searched,
                         !.found = IF searched
                                   THEN get_annotated_declaration_node(
                                            site.call.target, fdef, tree)
                                   ELSE NotFound]
    /\ phase' = "resolved"
    /\ UNCHANGED <<module, rootAnn, value, strict, result, wire>>
    /\ UNCHANGED cacheVars
    /\ UNCHANGED stamp
    /\ UNCHANGED calls
    /\ UNCHANGED queries

\* CallSite.__init__ of a ReturnCallSite (call_site.py 101, 330-350)
ReturnCallSiteInit ==
    /\ phase = "start" /\ site # <<>> /\ site.impl = "ReturnCallSite"
    /\ resolved' = ReturnCallSite_parse_return_type(site.parent, module)
    /\ phase' = "resolved"
    /\ UNCHANGED <<module, rootAnn, value, strict, result, wire, site>>
    /\ UNCHANGED cacheVars
    /\ UNCHANGED stamp
    /\ UNCHANGED calls
    /\ UNCHANGED queries

NextSite == AssignCallSiteInit \/ AssignCtxInit \/ ReturnCallSiteInit
SpecSite == InitSite /\ [][NextSite]_vars

\* the declarations of the module whose target is the call's target
Matching ==
    IF site.call.target = SelfX THEN site.present \cap {"c1"}
    ELSE site.present \cap {"m1", "o1", "f1", "ar", "b1"}
\* the annotation names a record that is declared nowhere
Unresolvable(a) == a \in {Name("Ghost"), Sub1("List", Name("Ghost"))}
\* no schema came out of the construction: it raised
Failed == resolved.exc # "" /\ resolved.id = 0

\* C16: when no annotated declaration of the assignment target exists, or the
\* declaration found (or the enclosing function's return annotation) names a
\* record or alias that does not resolve, the construction of the call site
\* raises: no default schema such as Any and no partial schema comes out.
C16_UnresolvedDeclarationFails ==
    /\ (phase = "resolved" /\ site.searched /\ Matching = {}) => Failed
    /\ (phase = "resolved" /\ site.searched /\ site.found.node # <<>>
          /\ Unresolvable(site.ann)) => Failed
    /\ (phase = "resolved" /\ site.impl = "ReturnCallSite"
          /\ (site.parent = <<>> \/ site.parent[1].ann = <<>>
                \/ Unresolvable(site.parent[1].ann[1]))) => Failed

\* how near a declaration's scope is to the statement that holds the call:
\* 1 the same block, 2 the enclosing function, 3 the enclosing class,
\* 4 the module level, 0 none of the call's scopes
Rank(at, d) ==
    CASE at = "block"  -> (CASE d = "b1" -> 1 [] d \in {"f1", "ar"} -> 2
                             [] d = "m1" -> 4 [] OTHER -> 0)
      [] at = "module" -> (CASE d = "m1" -> 1 [] OTHER -> 0)
      [] at = "method" -> (CASE d = "c1" -> 3 [] OTHER -> 0)
InScope == {d \in Matching : Rank(site.call.at, d) > 0}
Nearest == {d \in InScope : \A e \in InScope : Rank(site.call.at, d) <= Rank(site.call.at, e)}

\* C17: the declaration chosen for an assignment target is the one in the
\* nearest scope of the call (same block, enclosing function, enclosing
\* class, module level, in this order), and a declaration in none of these
\* scopes is never chosen (a search that raises chooses nothing).
C17_NearestScopeWins ==
    (phase = "resolved" /\ site.searched /\ site.found.exc = "")
    => IF InScope = {} THEN site.found.node = <<>>
       ELSE /\ site.found.node # <<>>
            /\ site.found.node[1].id \in Nearest

(***************************************************************************)
(* The compilation cache with a clock and file modification times          *)
(* (SpecStamp): one process, one coroutine                                 *)
(***************************************************************************)
MaxTime == 2

InitStamp ==
    /\ module = ConvModule /\ rootAnn = Name("int") /\ value = None_
    /\ strict = FALSE /\ resolved = NoResolved /\ result = NoResult
    /\ phase = "start"
    /\ files = [f \in Paths |-> 0]
    /\ deps = [p \in Procs |-> AtExit(p, dependent_modules(files))]
    /\ mem = [p \in Procs |-> <<>>]
    /\ disk = NoFile
    /\ task = [t \in Tasks |-> Idle]
    /\ look = NoLook
    /\ CallUnused
    /\ stamp = [now |-> 0, mtime |-> [f \in Paths |-> 0], saved |-> 0]
    /\ OfUnused
    /\ QueryUnused

\* a source file is written again with the content it has: only its
\* modification time changes
Touch(f) ==
    /\ stamp.mtime[f] # stamp.now
    /\ stamp' = module_file_written(stamp, f)
    /\ UNCHANGED calls
    /\ UNCHANGED queries
    /\ look' = NoLook
    /\ UNCHANGED <<files, deps, mem, disk, task>>
    /\ UNCHANGED convVars
    /\ UNCHANGED callVars

\* time passes
Tick ==
    /\ stamp.now < MaxTime
    /\ stamp' = [stamp EXCEPT !.now = stamp.now + 1]
    /\ UNCHANGED calls
    /\ UNCHANGED queries
    /\ look' = NoLook
    /\ UNCHANGED <<files, deps, mem, disk, task>>
    /\ UNCHANGED convVars
    /\ UNCHANGED callVars

NextStamp ==
    \/ Compile("t1")
    \/ Respond("t1")
    \/ GeneratorFails("t1")
    \/ Write("t1")
    \/ \E f \in Paths, c \in Contents : Edit(f, c)
    \/ \E f \in Paths : Touch(f)
    \/ Tick
    \/ Restart("p1")
SpecStamp == InitStamp /\ [][NextStamp]_vars

\* the recorded hash of every dependency equals the hash of its content now
HashesMatch(e, DS) == \A d \in DS : e.hashes[d] = module_hash(files[d])

semantic_call_key == "SemanticCall object a:1:reason"
str_key           == "SemanticCall[a:1:reason]"

dict_set(d, key, item) ==
    [x \in DOMAIN d \cup {key} |-> IF x = key THEN item ELSE d[x]]

\* the key of "self._compilation_cache[semantic_call] = cache_item"
\* (bootstrap_execution_engine.py 95)
save_key == semantic_call_key

\* the key of "if str(semantic_call) in self._compilation_cache"
\* (bootstrap_execution_engine.py 130-131)
lookup_key == str_key

BootTasks == {"t1", "t2"}

InitBoot ==
    /\ module = ConvModule /\ rootAnn = Name("int") /\ value = None_
    /\ strict = FALSE /\ resolved = NoResolved /\ result = NoResult
    /\ phase = "start"
    /\ files = [f \in Paths |-> 0]
    /\ deps = [p \in Procs |-> dependent_modules(files)]
    /\ mem = [p \in Procs |-> <<>>]
    /\ disk = {}
    /\ task = [t \in Tasks |-> Idle]
    /\ look = NoLook
    /\ CallUnused
    /\ StampUnused
    /\ OfUnused
    /\ QueryUnused

\* BootstrapExecutionEngine._compile up to its return or to the await of the
\* compile model (bootstrap_execution_engine.py 129-178)
BootCompile(t) ==
    LET p == proc_of(t)
        cached == lookup_key \in DOMAIN mem[p]
        valid  == cached /\ check_valid(mem[p][lookup_key].hashes, deps[p], files)
    IN  /\ task[t].pc = "idle"
        /\ look' = [t |-> t,
                    outcome |-> IF valid THEN "hit"
                                ELSE IF cached THEN "miss" ELSE "nocache",
                    deps |-> deps[p],
                    entry |-> IF cached THEN <<mem[p][lookup_key]>> ELSE <<>>,
                    ret |-> IF valid THEN <<mem[p][lookup_key].artifact>> ELSE <<>>]
        /\ task' = IF valid THEN task
                   ELSE [task EXCEPT ![t] =
                           [pc |-> "awaiting", art |-> <<"prompt">>, content |-> <<>>]]
        /\ UNCHANGED <<files, deps, mem, disk>>
        /\ UNCHANGED convVars
        /\ UNCHANGED callVars
        /\ UNCHANGED stamp
        /\ UNCHANGED calls
        /\ UNCHANGED queries

\* the compile model answers: _parse_templates, then
\* _save_compilation_cache (bootstrap_execution_engine.py 180-192, 94-103)
BootRespond(t) ==
    LET p == proc_of(t)
        cache_item == [hashes |-> hashes_now(deps[p], files),
                       artifact |-> task[t].art[1]]
    IN  /\ task[t].pc = "awaiting"
        /\ mem' = [mem EXCEPT ![p] = dict_set(mem[p], save_key, cache_item)]
        /\ disk' = disk \cup {cache_item}
        /\ task' = [task EXCEPT ![t] = Idle]
        /\ look' = NoLook
        /\ UNCHANGED <<files, deps>>
        /\ UNCHANGED convVars
        /\ UNCHANGED callVars
        /\ UNCHANGED stamp
        /\ UNCHANGED calls
        /\ UNCHANGED queries

\* acompletion raises: nothing is saved (bootstrap_execution_engine.py 178)
BootFails(t) ==
    /\ task[t].pc = "awaiting"
    /\ task' = [task EXCEPT ![t] = Idle]
    /\ look' = NoLook
    /\ UNCHANGED <<files, deps, mem, disk>>
    /\ UNCHANGED convVars
    /\ UNCHANGED callVars
    /\ UNCHANGED stamp
    /\ UNCHANGED calls
    /\ UNCHANGED queries

\* the process starts again: BootstrapExecutionEngine.__init__ and
\* _load_compilation_cache (bootstrap_execution_engine.py 53-78); of several
\* files of the call the one iterated last stays in the dict
BootRestart(p) ==
    /\ \A t \in BootTasks : task[t].pc = "idle"
    /\ \/ disk = {} /\ mem' = [mem EXCEPT ![p] = <<>>]
       \/ \E cache_item \in disk :
             mem' = [mem EXCEPT ![p] = dict_set(<<>>, str_key, cache_item)]
    /\ mem'[p] # mem[p] \/ deps[p] # dependent_modules(files)
    /\ deps' = [deps EXCEPT ![p] = dependent_modules(files)]
    /\ look' = NoLook
    /\ UNCHANGED <<files, disk, task>>
    /\ UNCHANGED convVars
    /\ UNCHANGED callVars
    /\ UNCHANGED stamp
    /\ UNCHANGED calls
    /\ UNCHANGED queries

NextBoot ==
    \/ \E t \in BootTasks : BootCompile(t)
    \/ \E t \in BootTasks : BootRespond(t)
    \/ \E t \in BootTasks : BootFails(t)
    \/ \E f \in Paths, c \in Contents : Edit(f, c)
    \/ BootRestart("p1")
SpecBoot == InitBoot /\ [][NextBoot]_vars

\* a compilation of the call was saved by this process and every dependency
\* still has the content it had then
SavedAndUnchanged(p) ==
    /\ semantic_call_key \in DOMAIN mem[p]
    /\ check_valid(mem[p][semantic_call_key].hashes, deps[p], files)

\* C19: once a compilation of the call has been put in the cache by this
\* process, the index holds the artifact under the key lookups use, and an
\* execution of the call with unchanged dependencies is a hit that returns
\* the artifact and sends no compile request.
C19_SavedEntryIsHit ==
    SavedAndUnchanged("p1")
    => /\ lookup_key \in DOMAIN mem["p1"]
       /\ look.outcome # ""
            => /\ look.outcome = "hit"
               /\ task[look.t].pc = "idle"

(***************************************************************************)
(* Invocations through AI.__getattr__ (SpecOf): every invocation asks      *)
(* SemanticCall.of for the call's SemanticCall, whose return_type is the   *)
(* Schema graph of the call site.  calls.objects are the SemanticCall      *)
(* objects constructed so far, calls.returned the object each invocation   *)
(* was handed.  The sources do not change.                                 *)
(***************************************************************************)
MaxCalls == 3

\* a caller frame: the file and line of the call (f_globals, f_lineno)
Frame(module_filename, line_number) ==
    [module_filename |-> module_filename, line_number |-> line_number]

Frames == {Frame("a.py", 1), Frame("a.py", 2), Frame("b.py", 1)}
MethodNames == {"reason", "pick"}

\* the annotation the call at a frame is assigned to
annotation_at(frame) ==
    IF frame.line_number = 1 THEN Name("Point")
    ELSE Sub1("List", Name("Node"))

\* SemanticCall.__init__ (semantic_call.py 35-78): a new object, nothing
\* parsed yet
SemanticCall_new(objects, caller_frame, method_name) ==
    [obj |-> Len(objects) + 1,
     module_filename |-> caller_frame.module_filename,
     line_number |-> caller_frame.line_number,
     method_name |-> method_name,
     return_type |-> NoResolved]

\* SemanticCall.initialize (semantic_call.py 80-98): _parse_ctx resolves the
\* return type of the call
initialize(semantic_call, caller_frame, cs) ==
    [semantic_call EXCEPT
        !.return_type = resolve(annotation_at(caller_frame), cs)]

\* SemanticCall.__eq__ / __hash__ (semantic_call.py 381-392)
SemanticCall_eq(a, b) ==
    /\ a.module_filename = b.module_filename
    /\ a.line_number = b.line_number
    /\ a.method_name = b.method_name

\* SemanticCall.of (semantic_call.py 27-33): cls(...), then initialize()
SemanticCall_of(made, caller_frame, method_name, cs) ==
    LET semantic_call ==
            initialize(SemanticCall_new(made.objects, caller_frame,
                                        method_name), caller_frame, cs)
    IN  [objects |-> Append(made.objects, semantic_call),
         returned |-> Append(made.returned, semantic_call.obj)]

InitOf ==
    /\ module = ConvModule /\ rootAnn = Name("int") /\ value = None_
    /\ strict = FALSE /\ resolved = NoResolved /\ result = NoResult
    /\ phase = "start"
    /\ CacheUnused
    /\ CallUnused
    /\ StampUnused
    /\ calls = [objects |-> <<>>, returned |-> <<>>]
    /\ QueryUnused

\* ai_method_handler (ai.py 37-39): the handler of one invocation
ai_method_handler(caller_frame, method_name) ==
    /\ Len(calls.returned) < MaxCalls
    /\ calls' = SemanticCall_of(calls, caller_frame, method_name, module)
    /\ UNCHANGED queries
    /\ UNCHANGED convVars
    /\ UNCHANGED cacheVars
    /\ UNCHANGED callVars
    /\ UNCHANGED stamp

NextOf == \E fr \in Frames, m \in MethodNames : ai_method_handler(fr, m)
SpecOf == InitOf /\ [][NextOf]_vars

\* the object invocation i was handed
Handed(i) ==
    CHOOSE o \in Range(calls.objects) : o.obj = calls.returned[i]

\* C20: one Schema graph is built per call-site identity and kept for the
\* life of the process: two invocations from the same call site are handed
\* the same graph, and no identity has its schema resolved twice
C20_OneGraphPerIdentity ==
    /\ \A i, j \in DOMAIN calls.returned :
          SemanticCall_eq(Handed(i), Handed(j))
              => calls.returned[i] = calls.returned[j]
    /\ \A a, b \in Range(calls.objects) :
          SemanticCall_eq(a, b) => a.obj = b.obj


(***************************************************************************)
(* The compilation cache of DefaultExecutionEngine (SpecEngine): mem[p] is *)
(* the engine's _compilation_cache dict, keyed by str(semantic_call) when  *)
(* saving, loading and looking up.  Every compilation writes a file named  *)
(* after the uuid of its compile task; disk is the sequence of the files'  *)
(* contents in the order they were written.  One execution of the call    *)
(* runs at a time.                                                         *)
(***************************************************************************)
MaxFiles == 2

EngineTasks == {"t1"}

InitEngine ==
    /\ module = ConvModule /\ rootAnn = Name("int") /\ value = None_
    /\ strict = FALSE /\ resolved = NoResolved /\ result = NoResult
    /\ phase = "start"
    /\ files = [f \in Paths |-> 0]
    /\ deps = [p \in Procs |-> dependent_modules(files)]
    /\ mem = [p \in Procs |-> <<>>]
    /\ disk = <<>>
    /\ task = [t \in Tasks |-> Idle]
    /\ look = NoLook
    /\ CallUnused
    /\ StampUnused
    /\ OfUnused
    /\ QueryUnused

\* the compile tasks that will still write a file
Awaiting == {t \in EngineTasks : task[t].pc = "awaiting"}

\* DefaultExecutionEngine.execute up to the use of the cached templates or
\* to the await of the compiler (default_execution_engine.py 159-182)
EngineExecute(t) ==
    LET p == proc_of(t)
        cached == str_key \in DOMAIN mem[p]
        valid  == cached /\ check_valid(mem[p][str_key].hashes, deps[p], files)
    IN  /\ task[t].pc = "idle"
        /\ valid \/ Len(disk) + Cardinality(Awaiting) < MaxFiles
        /\ look' = [t |-> t,
                    outcome |-> IF valid THEN "hit"
                                ELSE IF cached THEN "miss" ELSE "nocache",
                    deps |-> deps[p],
                    entry |-> IF cached THEN <<mem[p][str_key]>> ELSE <<>>,
                    ret |-> IF valid THEN <<mem[p][str_key].artifact>> ELSE <<>>]
        /\ task' = IF valid THEN task
                   ELSE [task EXCEPT ![t] =
                           [pc |-> "awaiting", art |-> <<files>>, content |-> <<>>]]
        /\ UNCHANGED <<files, deps, mem, disk>>
        /\ UNCHANGED convVars
        /\ UNCHANGED callVars
        /\ UNCHANGED stamp
        /\ UNCHANGED calls
        /\ UNCHANGED queries

\* the compiler answers: _save_compilation_cache with the hashes of the
\* modules as they are now (default_execution_engine.py 182-183, 149-156)
EngineRespond(t) ==
    LET p == proc_of(t)
        cache_item == [hashes |-> hashes_now(deps[p], files),
                       artifact |-> task[t].art[1]]
    IN  /\ task[t].pc = "awaiting"
        /\ mem' = [mem EXCEPT ![p] = dict_set(mem[p], str_key, cache_item)]
        /\ disk' = Append(disk, cache_item)
        /\ task' = [task EXCEPT ![t] = Idle]
        /\ look' = NoLook
        /\ UNCHANGED <<files, deps>>
        /\ UNCHANGED convVars
        /\ UNCHANGED callVars
        /\ UNCHANGED stamp
        /\ UNCHANGED calls
        /\ UNCHANGED queries

\* self._compiler.compile raises: execute has no handler, nothing is saved
\* (default_execution_engine.py 182)
EngineFails(t) ==
    /\ task[t].pc = "awaiting"
    /\ task' = [task EXCEPT ![t] = Idle]
    /\ look' = [NoLook EXCEPT !.t = t, !.outcome = "raised"]
    /\ UNCHANGED <<files, deps, mem, disk>>
    /\ UNCHANGED convVars
    /\ UNCHANGED callVars
    /\ UNCHANGED stamp
    /\ UNCHANGED calls
    /\ UNCHANGED queries

\* the process starts again: DefaultExecutionEngine.__init__ and
\* _load_compilation_cache (default_execution_engine.py 115-147); iterdir
\* lists the files in no particular order, and of several files of the call
\* the one listed last stays in the dict
EngineRestart(p) ==
    /\ \A t \in EngineTasks : task[t].pc = "idle"
    /\ \/ /\ disk = <<>>
          /\ mem' = [mem EXCEPT ![p] = <<>>]
          /\ look' = [NoLook EXCEPT !.outcome = "loaded"]
       \/ \E i \in DOMAIN disk :
             /\ mem' = [mem EXCEPT ![p] = dict_set(<<>>, str_key, disk[i])]
             /\ look' = [NoLook EXCEPT !.outcome = "loaded",
                                       !.entry = <<disk[i]>>]
    /\ deps' = [deps EXCEPT ![p] = dependent_modules(files)]
    /\ UNCHANGED <<files, disk, task>>
    /\ UNCHANGED convVars
    /\ UNCHANGED callVars
    /\ UNCHANGED stamp
    /\ UNCHANGED calls
    /\ UNCHANGED queries

NextEngine ==
    \/ \E t \in EngineTasks : EngineExecute(t)
    \/ \E t \in EngineTasks : EngineRespond(t)
    \/ \E t \in EngineTasks : EngineFails(t)
    \/ \E f \in Paths, c \in Contents : Edit(f, c)
    \/ EngineRestart("p1")
SpecEngine == InitEngine /\ [][NextEngine]_vars

\* C21: the call has at most one cache file, and the entry a restarted
\* process holds for the call is the one written last.
C21_OneFilePerIdentity ==
    /\ Len(disk) <= 1
    /\ look.outcome = "loaded" /\ disk # <<>>
          => look.entry = <<disk[Len(disk)]>>


\* the artifact was compiled from the content every dependency has now
CompiledFromCurrent(artifact, ds) ==
    \A d \in Range(ds) : artifact[d] = files[d]

\* C22: the hashes stored with an artifact are those of the source it was
\* compiled from, so an execution that finds a valid cached compilation is
\* handed an artifact compiled from the current content of every dependency,
\* also when a dependency was edited while the compiler was awaited.
C22_HashesOfCompiledSource ==
    look.outcome = "hit" => CompiledFromCurrent(look.ret[1], look.deps)


(***************************************************************************)
(* The derived queries of a resolved schema (SpecQuery): the call site     *)
(* asks its return type for related_dataclass_sources() and                *)
(* type_alias_sources() without an argument, so that `visited` is the      *)
(* default argument of the method of the root's class: one set per class   *)
(* and method, made when the class is defined.  A result dict is kept as   *)
(* the set of its keys.                                                    *)
(***************************************************************************)
MaxQueries == 2

Methods == {"related_dataclass_sources", "type_alias_sources"}
\* the classes that define the two methods with "visited=set()"
VisitingKinds ==
    {"List", "Tuple", "Dict", "Dataclass", "Union", "Alias", "Optional"}

RECURSIVE sources(_, _, _, _, _)
RECURSIVE sources_of(_, _, _, _, _, _)

\* the loops "for t in children: result.update(t.<method>(visited))"
sources_of(method, ar, cs, ids, i, visited) ==
    IF i > Len(ids) THEN [result |-> {}, visited |-> visited]
    ELSE LET r    == sources(method, ar, cs, ids[i], visited)
             rest == sources_of(method, ar, cs, ids, i + 1, r.visited)
         IN  [result |-> r.result \cup rest.result, visited |-> rest.visited]

\* related_dataclass_sources / type_alias_sources of the node `id` called
\* with the set `visited` (type.py 102-106, 208-220, 278-294, 361-377,
\* 505-530, 626-645, 857-870, 912-924)
sources(method, ar, cs, id, visited) ==
    LET n == ar[id]
        own == IF n.kind = (IF method = "related_dataclass_sources"
                            THEN "Dataclass" ELSE "Alias")
               THEN {n.name} ELSE {}
    IN  IF n.kind \notin VisitingKinds \/ id \in visited
        THEN [result |-> {}, visited |-> visited]
        ELSE LET r == sources_of(method, ar, cs, n.items, 1, visited \cup {id})
             IN  [result |-> own \cup r.result, visited |-> r.visited]

\* the call without an argument: Python binds `visited` to the method's one
\* default set, which the call then adds to
call_with_default(method, ar, cs, id, default) ==
    sources(method, ar, cs, id, default)

InitQuery ==
    /\ \/ module = ConvModule /\ rootAnn \in ConvRoots
       \/ module = AstModule /\ rootAnn \in AstRoots
    /\ value = None_ /\ strict = FALSE
    /\ resolved = NoResolved /\ result = NoResult
    /\ phase = "start"
    /\ CacheUnused
    /\ CallUnused
    /\ StampUnused
    /\ OfUnused
    /\ queries = [visited |-> [m \in Methods |-> [k \in VisitingKinds |-> {}]],
                  results |-> <<>>]

\* CallSite.related_dataclass_sources / the type_alias_sources call of the
\* code context (call_site.py 187, 193; llm.py 186)
Query(method) ==
    LET kind == resolved.ar[resolved.id].kind
        default == IF kind \in VisitingKinds THEN queries.visited[method][kind]
                   ELSE {}
        r == call_with_default(method, resolved.ar, module, resolved.id, default)
    IN  /\ phase = "resolved" /\ resolved.exc = "" /\ resolved.id # 0
        /\ Len(queries.results) < MaxQueries
        /\ queries' =
              [visited |-> IF kind \in VisitingKinds
                           THEN [queries.visited EXCEPT ![method][kind] = r.visited]
                           ELSE queries.visited,
               results |-> Append(queries.results,
                                  [method |-> method, result |-> r.result])]
        /\ UNCHANGED convVars
        /\ UNCHANGED cacheVars
        /\ UNCHANGED callVars
        /\ UNCHANGED stamp
        /\ UNCHANGED calls

NextQuery == Resolve \/ \E m \in Methods : Query(m)
SpecQuery == InitQuery /\ [][NextQuery]_vars

\* what a query over the resolved schema has to return: every record, or
\* every alias, that can be reached from the root
Referenced(method) ==
    {resolved.ar[n].name :
        n \in {x \in Reachable :
                 resolved.ar[x].kind =
                    (IF method = "related_dataclass_sources" THEN "Dataclass"
                     ELSE "Alias")}}

\* C27: the queries over a resolved schema are pure: every call of a query,
\* the second as the first, returns the records (the aliases) that can be
\* reached from the schema.
C27_QueriesArePure ==
    \A i \in DOMAIN queries.results :
        queries.results[i].result = Referenced(queries.results[i].method)

====
